---- MODULE Spec2Model ----
(***************************************************************************)
(* TraceParse: the windowed trace store (TraceManager), its background     *)
(* window reloads, and the step-indexed auxiliary log store (LogManager).  *)
(*                                                                         *)
(* Line numbers are 0-based as in the Go code; TLA+ sequences are 1-based, *)
(* so file line k is file[k+1] and window slot w is Instructions[w+1].     *)
(*                                                                         *)
(* Concurrency: every `go tm.LoadWindow(c)` is a goroutine of its own with *)
(* no lock around any field of the TraceManager.  A goroutine is a slot of *)
(* `procs`; it advances one shared-memory access at a time.  The two words *)
(* of LoadedRange ([2]int) are written one word at a time, in either       *)
(* order: the Go memory model treats an access wider than a machine word   *)
(* as several word-sized accesses in an unspecified order.                 *)
(***************************************************************************)
EXTENDS Integers, Sequences, FiniteSets, TLC

\* ---------------------------------------------------------------- bounds
MaxLines == 3        \* longest trace file, in lines
MaxProcs == 2        \* goroutines alive at once
MaxCalls == 3        \* calls the caller makes in one run, ReadTraceFile included
MaxJumpLines == 4    \* longest trace file a single jump is made in
MaxFnTotal == 5      \* largest line count a window is computed for
MaxFnWindow == 4     \* largest window size a window is computed for

\* ------------------------------------------- program constants, scaled
\* tm.windowSize, 2000 in NewTraceManager, scaled to files of MaxLines lines.
WindowSize == 2
\* The distance from the window's edge at which Next and Prev start a reload,
\* 100 in the code, scaled with the window.
Margin == 1

VARIABLES
    file,          \* the trace file on disk: a sequence of lines
    openStatus,    \* "none" | "ok" | "failed": outcome of ReadTraceFile
    FileName,      \* tm.FileName ("" until ReadTraceFile stores it)
    totalLines,    \* tm.totalLines
    LoadedRange,   \* tm.LoadedRange, <<start, end>>
    Instructions,  \* tm.Instructions, the window array
    CurrentIndex,  \* tm.CurrentIndex, the cursor
    PrevLine,      \* tm.PrevLine
    isLoading,     \* tm.isLoading
    procs,         \* the LoadWindow goroutines
    calls,         \* how many calls the caller has made
    ret,           \* the caller's last call and whether it returned true / non-nil
    target,        \* the line a polling caller keeps asking GetLine for
    logFile,       \* an auxiliary log file on disk: a sequence of lines
    BlLogs,        \* lm.BlLogs: step -> list of call-log entries
    RwLogs,        \* lm.RwLogs: step -> list of memory-log entries
    logLoaded,     \* which of LoadBLLog / LoadRWLog have returned
    lookupRet,     \* the last GetBLLogsForStep / GetRWLogsForStep call and its result
    lastValues,    \* RegDetector.lastValues: index 0..32 -> value
    hasPrev,       \* RegDetector.hasPrev
    changes,       \* the last detector call and the map Update returned
    LastCommand,   \* u.LastCommand (NoCommand = nil)
    RepeatCount,   \* u.RepeatCount
    AutoStep,      \* u.AutoStep
    StepDelay,     \* u.StepDelay
    cmdRet,        \* the last input line handled: the command parsed from it and `updated`
    fnArg,         \* the argument a function is applied to
    fnRet,         \* the value it returned
    AutoStepChan,  \* state.AutoStepChan: the values sent and not yet received
    uiSend,        \* the UI thread's send on AutoStepChan, when it is blocked in one
    auto           \* the StartAutoStep goroutine: its position and its local `updated`

traceVars == <<file, openStatus, FileName, totalLines, LoadedRange, Instructions,
               CurrentIndex, PrevLine, isLoading, procs, calls, ret, target>>

logVars == <<logFile, BlLogs, RwLogs, logLoaded, lookupRet>>

detVars == <<lastValues, hasPrev, changes>>

userVars == <<LastCommand, RepeatCount, AutoStep, StepDelay, cmdRet>>

fnVars == <<fnArg, fnRet>>

autoVars == <<AutoStepChan, uiSend, auto>>

\* Everything but the trace store, and everything but the log store.
nonTraceVars == <<logFile, BlLogs, RwLogs, logLoaded, lookupRet,
                  lastValues, hasPrev, changes,
                  LastCommand, RepeatCount, AutoStep, StepDelay, cmdRet, fnArg, fnRet,
                  AutoStepChan, uiSend, auto>>

nonLogVars == <<file, openStatus, FileName, totalLines, LoadedRange, Instructions,
                CurrentIndex, PrevLine, isLoading, procs, calls, ret, target,
                lastValues, hasPrev, changes,
                LastCommand, RepeatCount, AutoStep, StepDelay, cmdRet, fnArg, fnRet,
                AutoStepChan, uiSend, auto>>

vars == <<file, openStatus, FileName, totalLines, LoadedRange, Instructions,
          CurrentIndex, PrevLine, isLoading, procs, calls, ret, target,
          logFile, BlLogs, RwLogs, logLoaded, lookupRet,
          lastValues, hasPrev, changes,
          LastCommand, RepeatCount, AutoStep, StepDelay, cmdRet, fnArg, fnRet,
          AutoStepChan, uiSend, auto>>

\* ------------------------------------------------------------------ texts
\* A text (a Go string) is a sequence of one-character strings.  The texts
\* the model generates are over digits, the letters a-f, A-F, b, o, x, i, the
\* space, and the characters " | - + : ( ) ; among the characters strconv
\* gives a meaning to, only '_' is absent.
DigitChars == <<"0", "1", "2", "3", "4", "5", "6", "7", "8", "9">>

IsDigit(c) == \E d \in 1..10 : DigitChars[d] = c
DigitValue(c) == (CHOOSE d \in 1..10 : DigitChars[d] = c) - 1

LowerLetters == <<"a", "b", "c", "d", "e", "f", "o", "x">>
UpperLetters == <<"A", "B", "C", "D", "E", "F", "O", "X">>

\* strconv's lower(c) on the letters of the texts.
Lower(c) ==
    IF \E k \in 1..8 : UpperLetters[k] = c
    THEN LowerLetters[CHOOSE k \in 1..8 : UpperLetters[k] = c]
    ELSE c

\* The value strconv.ParseUint gives a character as a digit: 0-9, a-f as
\* 10-15, and a value no base of the program admits for any other character.
DigitOf(c) ==
    IF IsDigit(c) THEN DigitValue(c)
    ELSE IF \E k \in 1..6 : LowerLetters[k] = Lower(c)
    THEN 9 + (CHOOSE k \in 1..6 : LowerLetters[k] = Lower(c))
    ELSE 36

RECURSIVE ValueIn(_, _)
\* The number a sequence of digits of a base writes.
ValueIn(base, ds) ==
    IF ds = <<>> THEN 0
    ELSE base * ValueIn(base, SubSeq(ds, 1, Len(ds) - 1)) + DigitOf(ds[Len(ds)])

IsSpace(c) == c = " "

\* strings.TrimSpace: the text from its first to its last character that is
\* no white space.
TrimSpace(text) ==
    LET kept == { i \in 1..Len(text) : ~IsSpace(text[i]) }
    IN IF kept = {} THEN <<>>
       ELSE SubSeq(text, CHOOSE i \in kept : \A j \in kept : i <= j,
                         CHOOSE i \in kept : \A j \in kept : i >= j)

\* strings.Split(text, sep) for a one-character separator: the pieces
\* between one separator (or the start) and the next (or the end).
Split(text, sep) ==
    LET seps == { i \in 1..Len(text) : text[i] = sep }
        cuts == seps \cup {0, Len(text) + 1}
        cut(k) == CHOOSE i \in cuts : Cardinality({ j \in cuts : j < i }) = k
    IN [k \in 1..(Cardinality(seps) + 1) |->
          SubSeq(text, cut(k - 1) + 1, cut(k) - 1)]

RECURSIVE Join(_, _)
\* strings.Join(fields, sep)
Join(fields, sep) ==
    IF fields = <<>> THEN <<>>
    ELSE IF Len(fields) = 1 THEN fields[1]
    ELSE fields[1] \o <<sep>> \o Join(Tail(fields), sep)

RECURSIVE DecimalText(_)
\* strconv.Itoa of a number that is not negative.
DecimalText(n) ==
    IF n < 10 THEN <<DigitChars[n + 1]>>
    ELSE DecimalText(n \div 10) \o <<DigitChars[(n % 10) + 1]>>

\* strings.Index(text, c) and strings.LastIndex(text, c) for a one-character
\* c: the 0-based position, -1 when c does not occur.
Index(text, c) ==
    IF \A i \in 1..Len(text) : text[i] # c THEN 0 - 1
    ELSE (CHOOSE i \in 1..Len(text) :
              text[i] = c /\ \A j \in 1..(i - 1) : text[j] # c) - 1

LastIndex(text, c) ==
    IF \A i \in 1..Len(text) : text[i] # c THEN 0 - 1
    ELSE (CHOOSE i \in 1..Len(text) :
              text[i] = c /\ \A j \in (i + 1)..Len(text) : text[j] # c) - 1

\* The Go slice text[lo:hi].
Slice(text, lo, hi) == SubSeq(text, lo + 1, hi)

\* strings.HasPrefix
HasPrefix(text, prefix) ==
    Len(text) >= Len(prefix) /\ SubSeq(text, 1, Len(prefix)) = prefix

\* strings.SplitN(text, sep, 2): cut at the first sep, if there is one.
SplitN2(text, sep) ==
    LET i == Index(text, sep)
    IN IF i = 0 - 1 THEN <<text>>
       ELSE <<Slice(text, 0, i), Slice(text, i + 1, Len(text))>>

\* strconv.ParseUint(s, base, bitSize) for base 16 and base 0.  With base 0
\* the base is taken from the prefix: 0x 16, 0o 8, 0b 2 (when a digit can
\* follow), a leading 0 alone 8, else 10.  A sign is no digit.  Every numeral
\* of the generated texts is below 2^31, so the range error for a value of
\* 2^bitSize or more does not arise.
ParseUint(s, base, bitSize) ==
    LET zero == base = 0 /\ s # <<>> /\ s[1] = "0"
        letter == IF zero /\ Len(s) >= 3 THEN Lower(s[2]) ELSE ""
        prefixed == letter \in {"b", "o", "x"}
        b == IF base # 0 THEN base
             ELSE IF ~zero THEN 10
             ELSE IF letter = "b" THEN 2
             ELSE IF letter = "x" THEN 16
             ELSE 8
        ds == IF prefixed THEN SubSeq(s, 3, Len(s))
              ELSE IF zero THEN Tail(s)
              ELSE s
    IN IF s = <<>> \/ \E i \in 1..Len(ds) : DigitOf(ds[i]) >= b
       THEN [err |-> TRUE, val |-> 0]
       ELSE [err |-> FALSE, val |-> ValueIn(b, ds)]

\* ------------------------------------------------------------ trace lines
\* A nil *TraceLine.
Nil == [ok |-> FALSE]

\* Instr: the trimmed field without its surrounding quote characters.
Unquote(text) ==
    LET t == TrimSpace(text)
    IN IF t # <<>> /\ t[1] = "\"" /\ t[Len(t)] = "\""
       THEN SubSeq(t, 2, Len(t) - 1) ELSE t

\* The field a numeric member is read from: x0..x28 from fields 4..32, x29
\* and x30 from fields 33 and 34 (0-based).
RegField(fields, i) == fields[4 + i + 1]

\* ParseLine: the record of a line of 37 '|'-separated fields whose numeric
\* fields parse, nil (an error) otherwise.
ParseLine(line) ==
    LET fields == Split(line, "|")
        num(k) == ParseUint(TrimSpace(fields[k + 1]), 0, 64)
    IN IF Len(fields) # 37 THEN Nil
       ELSE LET step == ParseUint(TrimSpace(fields[1]), 16, 32)
            IN IF step.err \/ num(1).err \/ num(2).err
                  \/ (\E k \in 4..36 : num(k).err)
               THEN Nil
               ELSE [ok |-> TRUE,
                     Step |-> step.val,
                     Addr |-> num(1).val,
                     Offset |-> num(2).val,
                     Instr |-> Unquote(fields[4]),
                     Regs |-> [i \in 0..30 |->
                                 ParseUint(TrimSpace(RegField(fields, i)), 0, 64).val],
                     SP |-> num(35).val,
                     PC |-> num(36).val]

\* The fields of the line a tracer writes at step k: the step in base 16, an
\* instruction text, and 0 in every other field.
TraceFields(k) ==
    [f \in 1..37 |-> IF f = 1 THEN <<LowerLetters[1]>> \o <<DigitChars[k + 1]>>
                     ELSE IF f = 4 THEN <<"i">>
                     ELSE <<"0">>]

\* Line k of a generated file: the tracer's line, or that line cut short by
\* one field.
TraceFileLine(k, wellFormed) ==
    IF wellFormed THEN Join(TraceFields(k), "|")
    ELSE Join(SubSeq(TraceFields(k), 1, 36), "|")

\* The files of at most maxLen lines, each line well-formed or not.
FilesUpTo(maxLen) ==
    UNION { { [k \in 1..n |-> TraceFileLine(k - 1, wf[k])] : wf \in [1..n -> BOOLEAN] }
            : n \in 0..maxLen }

Files == FilesUpTo(MaxLines)

\* ParseLine of every line a generated file holds, computed once.
ParsedLines ==
    [line \in { TraceFileLine(k, wf) : k \in 0..(MaxJumpLines - 1), wf \in BOOLEAN }
       |-> ParseLine(line)]

\* ParseLine applied to line i (0-based) of file f.
ParseLineOf(f, i) ==
    IF f[i + 1] \in DOMAIN ParsedLines THEN ParsedLines[f[i + 1]]
    ELSE ParseLine(f[i + 1])

Max(a, b) == IF a > b THEN a ELSE b
Min(a, b) == IF a < b THEN a ELSE b

\* ------------------------------------------------------------- goroutines
IdleProc ==
    [pc |-> "idle", center |-> 0, start |-> 0, end |-> 0, line |-> 0, first |-> 0,
     skipped |-> FALSE]

FreeSlots(ps) == { i \in DOMAIN ps : ps[i].pc = "idle" }

RECURSIVE Spawn(_, _)
\* `go tm.LoadWindow(c)` for each c of centers, in order.
Spawn(ps, centers) ==
    IF centers = <<>> THEN ps
    ELSE LET slot == CHOOSE i \in FreeSlots(ps) : \A j \in FreeSlots(ps) : i <= j
         IN Spawn([ps EXCEPT ![slot] = [IdleProc EXCEPT !.pc = "check",
                                                        !.center = Head(centers)]],
                  Tail(centers))

\* ---------------------------------------------------------- window bounds
\* Variant of the window computation that lays the window before the center
\* instead of around it.
WindowOf_BeforeCenter(center, total, windowSize) ==
    LET start0 == Max(center - windowSize, 0)
        end0 == start0 + windowSize
    IN IF end0 > total
       THEN <<Max(total - windowSize, 0), total>>
       ELSE <<start0, end0>>

\* Variant of the window computation without the second clamp of start.
WindowOf_NoSecondClamp(center, total, windowSize) ==
    LET halfWindow == windowSize \div 2
        start0 == Max(center - halfWindow, 0)
        end0 == start0 + windowSize
    IN IF end0 > total
       THEN <<total - windowSize, total>>
       ELSE <<start0, end0>>

\* LoadWindow's window for a center, a total and tm.windowSize: <<start, end>>.
WindowOf(center, total, windowSize) ==
    LET halfWindow == windowSize \div 2
        start0 == Max(center - halfWindow, 0)
        end0 == start0 + windowSize
    IN IF end0 > total
       THEN <<Max(total - windowSize, 0), total>>
       ELSE <<start0, end0>>

\* The window of this store, whose windowSize NewTraceManager fixes.
WindowFor(center, total) == WindowOf(center, total, WindowSize)

RECURSIVE ScanWindow(_, _, _)
\* loadFileWindow's scan run to the end by one goroutine alone: the parse (or
\* nil placeholder) of each of lines [start, end) of f.
ScanWindow(f, start, end) ==
    IF start >= end \/ start >= Len(f) THEN <<>>
    ELSE <<ParseLineOf(f, start)>> \o ScanWindow(f, start + 1, end)

\* ----------------------------------------------------------------- reads
\* GetCurrent's result for a cursor at index.
CurrentAt(index) ==
    LET windowIndex == index - LoadedRange[1]
    IN IF /\ LoadedRange[1] <= index
          /\ index < LoadedRange[2]
          /\ windowIndex >= 0
          /\ windowIndex < Len(Instructions)
       THEN Instructions[windowIndex + 1]
       ELSE Nil

\* GetCurrent's result.
GetCurrentVal == CurrentAt(CurrentIndex)

\* GetLine's first branch: the index is in the loaded range and in the array.
GetLineHit(index) ==
    /\ index >= LoadedRange[1]
    /\ index < LoadedRange[2]
    /\ index - LoadedRange[1] >= 0
    /\ index - LoadedRange[1] < Len(Instructions)

\* GetLine's result.
GetLineVal(index) ==
    IF GetLineHit(index) THEN Instructions[index - LoadedRange[1] + 1] ELSE Nil

\* The reloads GetLine(index) starts: one, centered on index, when the first
\* branch did not return and the index is a line of the file.
GetLineSpawns(index) ==
    IF ~GetLineHit(index) /\ index >= 0 /\ index < totalLines
    THEN <<index>> ELSE <<>>

\* ------------------------------------------------------------------ Init
\* NewTraceManager: an empty store; the file on disk is any file of the bounds.
EmptyStore ==
    /\ openStatus = "none"
    /\ FileName = ""
    /\ totalLines = 0
    /\ LoadedRange = <<-1, -1>>
    /\ Instructions = <<>>
    /\ CurrentIndex = 0
    /\ PrevLine = Nil
    /\ isLoading = FALSE
    /\ procs = [i \in 1..MaxProcs |-> IdleProc]
    /\ calls = 0
    /\ ret = [op |-> "none", ok |-> FALSE]

TraceInit ==
    /\ file \in Files
    /\ EmptyStore

\* -------------------------------------------------------- ReadTraceFile
\* ReadTraceFile with both opens succeeding: count the lines, store the name,
\* LoadWindow(0) run synchronously (no goroutine exists before FileName is set).
ReadTraceFile ==
    /\ openStatus = "none"
    /\ LET w == WindowFor(0, Len(file))
           loaded == ScanWindow(file, w[1], w[2])
       IN /\ totalLines' = Len(file)
          /\ FileName' = "trace"
          /\ Instructions' = loaded
          /\ LoadedRange' = w
          /\ CurrentIndex' = IF CurrentIndex < w[1] \/ CurrentIndex >= w[2]
                             THEN w[1] + Len(loaded) \div 2
                             ELSE CurrentIndex
    /\ openStatus' = "ok"
    /\ ret' = [op |-> "Open", ok |-> TRUE]
    /\ UNCHANGED <<file, PrevLine, isLoading, procs>>

\* ReadTraceFile whose first os.Open fails: returns the error before any write.
ReadTraceFileOpenFails ==
    /\ openStatus = "none"
    /\ openStatus' = "failed"
    /\ ret' = [op |-> "Open", ok |-> FALSE]
    /\ UNCHANGED <<file, FileName, totalLines, LoadedRange, Instructions,
                   CurrentIndex, PrevLine, isLoading, procs>>

\* ReadTraceFile whose line count succeeds and whose loadFileWindow os.Open
\* fails: totalLines and FileName are already stored, the window is not.
ReadTraceFileWindowFails ==
    /\ openStatus = "none"
    /\ totalLines' = Len(file)
    /\ FileName' = "trace"
    /\ openStatus' = "failed"
    /\ ret' = [op |-> "Open", ok |-> FALSE]
    /\ UNCHANGED <<file, LoadedRange, Instructions, CurrentIndex, PrevLine,
                   isLoading, procs>>

\* ------------------------------------------------------ the caller's calls
\* The caller's goroutines: a call that starts n reloads needs n free slots.
CanSpawn(centers) == Len(centers) <= Cardinality(FreeSlots(procs))

GetCurrent ==
    /\ ret' = [op |-> "GetCurrent", ok |-> GetCurrentVal # Nil]
    /\ UNCHANGED <<file, openStatus, FileName, totalLines, LoadedRange, Instructions,
                   CurrentIndex, PrevLine, isLoading, procs>>

GetLine(index) ==
    /\ CanSpawn(GetLineSpawns(index))
    /\ procs' = Spawn(procs, GetLineSpawns(index))
    /\ ret' = [op |-> "GetLine", ok |-> GetLineVal(index) # Nil]
    /\ UNCHANGED <<file, openStatus, FileName, totalLines, LoadedRange, Instructions,
                   CurrentIndex, PrevLine, isLoading>>

\* Variant of Next's boundary test that lets the cursor step past the last line.
NextCanStep_OffByOne == CurrentIndex < totalLines

\* Next's boundary test.
NextCanStep == CurrentIndex < totalLines - 1

\* Variant of Next's reload test that waits until the cursor is past the
\* window's end.
NextSpawns_PastEdge(newIndex) ==
    IF newIndex >= LoadedRange[2] THEN <<newIndex>> ELSE <<>>

\* The reload Next starts once the cursor is at newIndex.
NextSpawns(newIndex) ==
    IF newIndex >= LoadedRange[2] - Margin THEN <<newIndex>> ELSE <<>>

Next ==
    IF NextCanStep
    THEN /\ CanSpawn(NextSpawns(CurrentIndex + 1))
         /\ PrevLine' = GetCurrentVal
         /\ CurrentIndex' = CurrentIndex + 1
         /\ procs' = Spawn(procs, NextSpawns(CurrentIndex + 1))
         /\ ret' = [op |-> "Next", ok |-> TRUE]
         /\ UNCHANGED <<file, openStatus, FileName, totalLines, LoadedRange,
                        Instructions, isLoading>>
    ELSE /\ ret' = [op |-> "Next", ok |-> FALSE]
         /\ UNCHANGED <<file, openStatus, FileName, totalLines, LoadedRange,
                        Instructions, CurrentIndex, PrevLine, isLoading, procs>>

\* Prev's boundary test.
PrevCanStep == CurrentIndex > 0

\* The reload Prev starts once the cursor is at newIndex.
PrevSpawns(newIndex) ==
    IF newIndex <= LoadedRange[1] + Margin THEN <<newIndex>> ELSE <<>>

\* PrevLine as Prev and GoTo set it for a cursor moved to index, and the
\* reload that GetLine(index - 1) starts on the way.
PrevLineFor(index) == IF index - 1 >= 0 THEN GetLineVal(index - 1) ELSE Nil
PrevLineSpawns(index) == IF index - 1 >= 0 THEN GetLineSpawns(index - 1) ELSE <<>>

Prev ==
    IF PrevCanStep
    THEN LET newIndex == CurrentIndex - 1
             spawned == PrevLineSpawns(newIndex) \o PrevSpawns(newIndex)
         IN /\ CanSpawn(spawned)
            /\ CurrentIndex' = newIndex
            /\ PrevLine' = PrevLineFor(newIndex)
            /\ procs' = Spawn(procs, spawned)
            /\ ret' = [op |-> "Prev", ok |-> TRUE]
            /\ UNCHANGED <<file, openStatus, FileName, totalLines, LoadedRange,
                           Instructions, isLoading>>
    ELSE /\ ret' = [op |-> "Prev", ok |-> FALSE]
         /\ UNCHANGED <<file, openStatus, FileName, totalLines, LoadedRange,
                        Instructions, CurrentIndex, PrevLine, isLoading, procs>>

\* GoTo's range test.
GoToValid(index) == index >= 0 /\ index < totalLines

GoTo(index) ==
    IF GoToValid(index)
    THEN LET spawned == PrevLineSpawns(index) \o <<index>>
         IN /\ CanSpawn(spawned)
            /\ PrevLine' = PrevLineFor(index)
            /\ CurrentIndex' = index
            /\ procs' = Spawn(procs, spawned)
            /\ ret' = [op |-> "GoTo", ok |-> TRUE]
            /\ UNCHANGED <<file, openStatus, FileName, totalLines, LoadedRange,
                           Instructions, isLoading>>
    ELSE /\ ret' = [op |-> "GoTo", ok |-> FALSE]
         /\ UNCHANGED <<file, openStatus, FileName, totalLines, LoadedRange,
                        Instructions, CurrentIndex, PrevLine, isLoading, procs>>

\* Line numbers the caller asks for: every line of the file and one beyond
\* each end.
Indices == -1..MaxLines

\* ------------------------------------------- LoadWindow, step by step
\* pc of a goroutine: check -> busy -> calc -> open -> scan ->
\* range -> range2 -> adjust -> release -> idle (the goroutine has returned).
SetProc(p, rec) == procs' = [procs EXCEPT ![p] = rec]

\* LoadWindow's entry test.
LoadWindowBusy == FileName = "" \/ isLoading

\* `if tm.FileName == "" || tm.isLoading { return nil }`
LoadWindow_check(p) ==
    /\ procs[p].pc = "check"
    /\ SetProc(p, IF LoadWindowBusy THEN IdleProc ELSE [procs[p] EXCEPT !.pc = "busy"])
    /\ UNCHANGED <<file, openStatus, FileName, totalLines, LoadedRange, Instructions,
                   CurrentIndex, PrevLine, isLoading, calls, ret, target>>

\* `tm.isLoading = true`
LoadWindow_setBusy(p) ==
    /\ procs[p].pc = "busy"
    /\ isLoading' = TRUE
    /\ SetProc(p, [procs[p] EXCEPT !.pc = "calc"])
    /\ UNCHANGED <<file, openStatus, FileName, totalLines, LoadedRange, Instructions,
                   CurrentIndex, PrevLine, calls, ret, target>>

\* Variant of the bounds test that goes on to loadFileWindow whatever the
\* loaded bounds are.
LoadWindow_calc_NoSkip(p) ==
    /\ procs[p].pc = "calc"
    /\ LET w == WindowFor(procs[p].center, totalLines)
       IN SetProc(p, [procs[p] EXCEPT !.start = w[1], !.end = w[2], !.pc = "open"])
    /\ UNCHANGED <<file, openStatus, FileName, totalLines, LoadedRange, Instructions,
                   CurrentIndex, PrevLine, isLoading, calls, ret, target>>

\* The window bounds, and the return when they are the loaded ones (skipped).
LoadWindow_calc(p) ==
    /\ procs[p].pc = "calc"
    /\ LET w == WindowFor(procs[p].center, totalLines)
           same == w[1] = LoadedRange[1] /\ w[2] = LoadedRange[2]
       IN SetProc(p, [procs[p] EXCEPT
                        !.start = w[1], !.end = w[2], !.skipped = same,
                        !.pc = IF same THEN "release" ELSE "open"])
    /\ UNCHANGED <<file, openStatus, FileName, totalLines, LoadedRange, Instructions,
                   CurrentIndex, PrevLine, isLoading, calls, ret, target>>

\* loadFileWindow: os.Open succeeds and the window array is emptied,
\* `tm.Instructions = make([]*TraceLine, 0)`.  The lines before start are read
\* and dropped without touching the store, so the scan is taken up at start.
loadFileWindow_open(p) ==
    /\ procs[p].pc = "open"
    /\ Instructions' = <<>>
    /\ SetProc(p, [procs[p] EXCEPT
                     !.line = procs[p].start,
                     !.pc = IF procs[p].start < Min(procs[p].end, Len(file))
                            THEN "scan" ELSE "range"])
    /\ UNCHANGED <<file, openStatus, FileName, totalLines, LoadedRange,
                   CurrentIndex, PrevLine, isLoading, calls, ret, target>>

\* Variant of the failed open in which the goroutine ends without running
\* the deferred clear of isLoading.
loadFileWindow_openFails_NoRelease(p) ==
    /\ procs[p].pc = "open"
    /\ SetProc(p, IdleProc)
    /\ UNCHANGED <<file, openStatus, FileName, totalLines, LoadedRange, Instructions,
                   CurrentIndex, PrevLine, isLoading, calls, ret, target>>

\* loadFileWindow: os.Open fails and the error is returned.
loadFileWindow_openFails(p) ==
    /\ procs[p].pc = "open"
    /\ SetProc(p, [procs[p] EXCEPT !.pc = "release"])
    /\ UNCHANGED <<file, openStatus, FileName, totalLines, LoadedRange, Instructions,
                   CurrentIndex, PrevLine, isLoading, calls, ret, target>>

\* Variant of the scan loop that appends nothing for a line that fails to
\* parse.
loadFileWindow_scan_DropMalformed(p) ==
    /\ procs[p].pc = "scan"
    /\ LET currentLine == procs[p].line
           parsed == ParseLineOf(file, currentLine)
       IN /\ Instructions' = IF parsed = Nil THEN Instructions
                              ELSE Append(Instructions, parsed)
          /\ SetProc(p, [procs[p] EXCEPT
                           !.line = currentLine + 1,
                           !.pc = IF currentLine + 1 >= Min(procs[p].end, Len(file))
                                  THEN "range" ELSE "scan"])
    /\ UNCHANGED <<file, openStatus, FileName, totalLines, LoadedRange,
                   CurrentIndex, PrevLine, isLoading, calls, ret, target>>

\* One turn of the scan loop on a line of [start, end): append its parse (or
\* nil), count it, leave the loop at end or at the end of the file.
loadFileWindow_scan(p) ==
    /\ procs[p].pc = "scan"
    /\ LET currentLine == procs[p].line
       IN /\ Instructions' = Append(Instructions, ParseLineOf(file, currentLine))
          /\ SetProc(p, [procs[p] EXCEPT
                           !.line = currentLine + 1,
                           !.pc = IF currentLine + 1 >= Min(procs[p].end, Len(file))
                                  THEN "range" ELSE "scan"])
    /\ UNCHANGED <<file, openStatus, FileName, totalLines, LoadedRange,
                   CurrentIndex, PrevLine, isLoading, calls, ret, target>>

\* `tm.LoadedRange = [2]int{start, end}`: the first of its two word writes.
loadFileWindow_range(p) ==
    /\ procs[p].pc = "range"
    /\ \E w \in 1..2 :
         /\ LoadedRange' = [LoadedRange EXCEPT
                              ![w] = IF w = 1 THEN procs[p].start ELSE procs[p].end]
         /\ SetProc(p, [procs[p] EXCEPT !.pc = "range2", !.first = w])
    /\ UNCHANGED <<file, openStatus, FileName, totalLines, Instructions,
                   CurrentIndex, PrevLine, isLoading, calls, ret, target>>

\* The second word write of LoadedRange.
loadFileWindow_range2(p) ==
    /\ procs[p].pc = "range2"
    /\ LET w == 3 - procs[p].first
       IN LoadedRange' = [LoadedRange EXCEPT
                            ![w] = IF w = 1 THEN procs[p].start ELSE procs[p].end]
    /\ SetProc(p, [procs[p] EXCEPT !.pc = "adjust", !.first = 0, !.line = 0])
    /\ UNCHANGED <<file, openStatus, FileName, totalLines, Instructions,
                   CurrentIndex, PrevLine, isLoading, calls, ret, target>>

\* The cursor a completing reload leaves: the window midpoint when the cursor
\* is outside [start, end), the cursor itself otherwise.
AdjustedIndex(start, end) ==
    IF CurrentIndex < start \/ CurrentIndex >= end
    THEN start + Len(Instructions) \div 2
    ELSE CurrentIndex

loadFileWindow_adjust(p) ==
    /\ procs[p].pc = "adjust"
    /\ CurrentIndex' = AdjustedIndex(procs[p].start, procs[p].end)
    /\ SetProc(p, [procs[p] EXCEPT !.pc = "release"])
    /\ UNCHANGED <<file, openStatus, FileName, totalLines, LoadedRange, Instructions,
                   PrevLine, isLoading, calls, ret, target>>

\* The deferred `tm.isLoading = false`; the goroutine ends.
LoadWindow_release(p) ==
    /\ procs[p].pc = "release"
    /\ isLoading' = FALSE
    /\ SetProc(p, IdleProc)
    /\ UNCHANGED <<file, openStatus, FileName, totalLines, LoadedRange, Instructions,
                   CurrentIndex, PrevLine, calls, ret, target>>

\* One step of goroutine p.
LoadWindowStep(p) ==
    \/ LoadWindow_check(p)
    \/ LoadWindow_setBusy(p)
    \/ LoadWindow_calc(p)
    \/ loadFileWindow_open(p)
    \/ loadFileWindow_openFails(p)
    \/ loadFileWindow_scan(p)
    \/ loadFileWindow_range(p)
    \/ loadFileWindow_range2(p)
    \/ loadFileWindow_adjust(p)
    \/ LoadWindow_release(p)

Procs == 1..MaxProcs

CallerStep ==
    /\ calls < MaxCalls
    /\ calls' = calls + 1
    /\ UNCHANGED target
    /\ \/ ReadTraceFile
       \/ ReadTraceFileOpenFails
       \/ ReadTraceFileWindowFails
       \/ GetCurrent
       \/ \E index \in Indices : GetLine(index)
       \/ Next
       \/ Prev
       \/ \E index \in Indices : GoTo(index)

\* ====================================================== the log store
MaxLogLines == 3     \* longest auxiliary log file, in lines

\* A line of a log file, by what the loaders test of it:
\*   no       its line number in the file (the identity of the entry made of it)
\*   blank    strings.TrimSpace(line) == ""
\*   hdr      the loader's header test: "[0x" and "]:" for the call log,
\*            "(r)" or "(w)" and ":" for the memory log
\*   pipe     strings.Contains(line, "|")
\*   stepText the characters before the first ':', trimmed
LogLine(no, shape) == [no |-> no] @@ shape

HeaderShape(text) == [blank |-> FALSE, hdr |-> TRUE, pipe |-> FALSE, stepText |-> text]
DumpShape == [blank |-> FALSE, hdr |-> FALSE, pipe |-> TRUE, stepText |-> <<>>]
OtherShape == [blank |-> FALSE, hdr |-> FALSE, pipe |-> FALSE, stepText |-> <<>>]
BlankShape == [blank |-> TRUE, hdr |-> FALSE, pipe |-> FALSE, stepText |-> <<>>]

\* The step texts of the generated headers: "0", "1", "12", "-1", and "x"
\* (not a number).
StepTexts == { <<"0">>, <<"1">>, <<"1", "2">>, <<"-", "1">>, <<"x">> }

LineShapes == { HeaderShape(t) : t \in StepTexts } \cup {DumpShape, OtherShape, BlankShape}

LogFiles ==
    UNION { { [k \in 1..n |-> LogLine(k, sh[k])] : sh \in [1..n -> LineShapes] }
            : n \in 0..MaxLogLines }

RECURSIVE DecimalValue(_)
DecimalValue(ds) ==
    IF ds = <<>> THEN 0
    ELSE 10 * DecimalValue(SubSeq(ds, 1, Len(ds) - 1)) + DigitValue(ds[Len(ds)])

\* strconv.Atoi: an optional sign and one or more decimal digits.
Atoi(text) ==
    LET signed == text # <<>> /\ text[1] \in {"-", "+"}
        ds == IF signed THEN Tail(text) ELSE text
    IN IF ds = <<>> \/ \E i \in 1..Len(ds) : ~IsDigit(ds[i])
       THEN [err |-> TRUE, val |-> 0]
       ELSE [err |-> FALSE,
             val |-> IF signed /\ text[1] = "-" THEN 0 - DecimalValue(ds)
                     ELSE DecimalValue(ds)]

\* ParseBLLine / ParseRWLine on a header line: an error when the step is no
\* number, else an entry with the step, the raw line and no dump lines yet.
ParseLogLine(line) ==
    LET step == Atoi(line.stepText)
    IN IF step.err THEN [err |-> TRUE]
       ELSE [err |-> FALSE, Step |-> step.val, Content |-> line, MemoryHex |-> <<>>]

\* ParseRWLine on the text of a line: the step before the first ':', the
\* access kind from the prefix of what follows, and address and offset from
\* what lies between the first '(' and the last ')'.
ParseRWLine(line) ==
    LET parts == SplitN2(line, ":")
    IN IF Len(parts) < 2 THEN [err |-> TRUE]
       ELSE LET step == Atoi(TrimSpace(parts[1]))
                content == TrimSpace(parts[2])
                logType == IF HasPrefix(content, <<"(", "w", ")">>) THEN "w"
                           ELSE IF HasPrefix(content, <<"(", "r", ")">>) THEN "r"
                           ELSE ""
                startIdx == Index(content, "(")
                endIdx == LastIndex(content, ")")
                found == startIdx # 0 - 1 /\ endIdx # 0 - 1 /\ endIdx > startIdx
                addrPart == IF found THEN Slice(content, startIdx + 1, endIdx) ELSE <<>>
                plusIdx == Index(addrPart, "+")
            IN IF step.err THEN [err |-> TRUE]
               ELSE [err |-> FALSE,
                     Step |-> step.val,
                     Content |-> line,
                     Type |-> logType,
                     Address |-> IF ~found THEN <<>>
                                 ELSE IF plusIdx # 0 - 1
                                 THEN TrimSpace(Slice(addrPart, 0, plusIdx))
                                 ELSE addrPart,
                     Offset |-> IF found /\ plusIdx # 0 - 1
                                THEN TrimSpace(Slice(addrPart, plusIdx + 1, Len(addrPart)))
                                ELSE <<>>]

\* `lm.BlLogs[step] = append(lm.BlLogs[step], entry)` on a map of lists.
MapAppend(m, step, x) ==
    IF step \in DOMAIN m THEN [m EXCEPT ![step] = Append(@, x)]
    ELSE m @@ (step :> <<x>>)

\* The loader's loop state: the map (lists of entry pointers, a pointer being
\* the header's line number), the entries pointed to, currentEntry (0 = nil)
\* and memoryLines.
LoadStart == [logs |-> <<>>, heap |-> <<>>, cur |-> 0, mem |-> <<>>]

\* "save the entry": set its MemoryHex and append its pointer to its step's list.
SaveEntry(st) ==
    IF st.cur = 0 THEN st
    ELSE [st EXCEPT !.heap = [@ EXCEPT ![st.cur].MemoryHex = st.mem],
                    !.logs = MapAppend(@, st.heap[st.cur].Step, st.cur)]

\* What the header branch does with currentEntry and memoryLines once the
\* previous entry is saved: on a parse error `continue`, leaving both as they
\* are; else the new entry and an empty dump list.
TakeHeader(st, line) ==
    LET entry == ParseLogLine(line)
    IN IF entry.err THEN st
       ELSE [st EXCEPT !.cur = line.no,
                       !.mem = <<>>,
                       !.heap = (line.no :> entry) @@ @]

\* One turn of the loader's scan loop.
LoadLine(st, line) ==
    IF line.blank THEN st
    ELSE IF line.hdr THEN TakeHeader(SaveEntry(st), line)
    ELSE IF st.cur # 0 /\ line.pipe THEN [st EXCEPT !.mem = Append(@, line)]
    ELSE st

RECURSIVE LoadLines(_, _)
LoadLines(st, lines) ==
    IF lines = <<>> THEN st ELSE LoadLines(LoadLine(st, Head(lines)), Tail(lines))

\* LoadBLLog / LoadRWLog into the map m: the loop over the file, then the save
\* of the last entry; every pointer of the map read through to its entry.
LoadLog(m, lines) ==
    LET st == SaveEntry(LoadLines([LoadStart EXCEPT !.logs = m], lines))
    IN [s \in DOMAIN st.logs |->
          [i \in 1..Len(st.logs[s]) |->
             IF st.logs[s][i] \in DOMAIN st.heap THEN st.heap[st.logs[s][i]]
             ELSE st.logs[s][i]]]

\* The scan's test for a nearer step.
NearerStep(s, step, nearestStep) == s <= step /\ s > nearestStep

RECURSIVE ScanNearest(_, _, _, _, _)
\* `for s := range logs`: the keys in the order the map iteration yields them.
ScanNearest(m, order, step, nearestStep, nearestLogs) ==
    IF order = <<>> THEN nearestLogs
    ELSE LET s == Head(order)
         IN IF NearerStep(s, step, nearestStep)
            THEN ScanNearest(m, Tail(order), step, s, m[s])
            ELSE ScanNearest(m, Tail(order), step, nearestStep, nearestLogs)

\* GetBLLogsForStep / GetRWLogsForStep on map m, for one iteration order.
GetLogsForStep(m, order, step) ==
    IF step \in DOMAIN m THEN m[step]
    ELSE ScanNearest(m, order, step, -1, <<>>)

\* The orders a Go map iteration may take over the keys of m.
KeyOrders(m) ==
    { o \in [1..Cardinality(DOMAIN m) -> DOMAIN m] :
        \A i, j \in 1..Cardinality(DOMAIN m) : i # j => o[i] # o[j] }

\* The steps asked for: each step a header can record, and its neighbours.
QuerySteps == { v + d : v \in {-1, 0, 1, 12}, d \in {-1, 0, 1} }

LogStoreInit ==
    /\ BlLogs = <<>>
    /\ RwLogs = <<>>
    /\ logLoaded = {}
    /\ lookupRet = [op |-> "none", step |-> 0, logs |-> <<>>]

LoadBLLog ==
    /\ "BL" \notin logLoaded
    /\ BlLogs' = LoadLog(BlLogs, logFile)
    /\ logLoaded' = logLoaded \cup {"BL"}
    /\ UNCHANGED <<logFile, RwLogs, lookupRet>>

LoadRWLog ==
    /\ "RW" \notin logLoaded
    /\ RwLogs' = LoadLog(RwLogs, logFile)
    /\ logLoaded' = logLoaded \cup {"RW"}
    /\ UNCHANGED <<logFile, BlLogs, lookupRet>>

GetBLLogsForStep(step) ==
    /\ "BL" \in logLoaded
    /\ \E order \in KeyOrders(BlLogs) :
         lookupRet' = [op |-> "BL", step |-> step,
                       logs |-> GetLogsForStep(BlLogs, order, step)]
    /\ UNCHANGED <<logFile, BlLogs, RwLogs, logLoaded>>

GetRWLogsForStep(step) ==
    /\ "RW" \in logLoaded
    /\ \E order \in KeyOrders(RwLogs) :
         lookupRet' = [op |-> "RW", step |-> step,
                       logs |-> GetLogsForStep(RwLogs, order, step)]
    /\ UNCHANGED <<logFile, BlLogs, RwLogs, logLoaded>>

\* ================================================ the register tracker
\* NewRegisterChangeDetector: the zero value of the struct.
NewRegisterChangeDetector == [lastValues |-> [i \in 0..32 |-> 0], hasPrev |-> FALSE]

\* `changes` holds the result of the latest Update: the operation that called
\* it, the record it was given (arg), the record the same tracker was given
\* before (prev, Nil when none), and for a load the last record given to the
\* tracker the load replaced.
NoChanges == [op |-> "none", replaced |-> Nil, prev |-> Nil, arg |-> Nil, set |-> {}]

DetectorInit ==
    /\ lastValues = NewRegisterChangeDetector.lastValues
    /\ hasPrev = NewRegisterChangeDetector.hasPrev
    /\ changes = NoChanges

\* The 33 values Update stores for a record: x0..x30, SP at 31, PC at 32.
TrackedValues(t) ==
    [i \in 0..32 |-> IF i <= 30 THEN t.Regs[i] ELSE IF i = 31 THEN t.SP ELSE t.PC]

\* Variant of Update's comparison that leaves the PC out.
UpdateChanges_NoPC(det, current) ==
    IF det.hasPrev
    THEN { i \in 0..30 : current.Regs[i] # det.lastValues[i] }
         \cup (IF current.SP # det.lastValues[31] THEN {31} ELSE {})
    ELSE {}

\* The map Update returns for tracker det and record current.
UpdateChanges(det, current) ==
    IF det.hasPrev
    THEN { i \in 0..30 : current.Regs[i] # det.lastValues[i] }
         \cup (IF current.SP # det.lastValues[31] THEN {31} ELSE {})
         \cup (IF current.PC # det.lastValues[32] THEN {32} ELSE {})
    ELSE {}

\* The tracker as the fields of the User hold it.
RegDetector == [lastValues |-> lastValues, hasPrev |-> hasPrev]

\* RegDetector.Update(current) for a record current. Its one caller,
\* GetRegisterInfo, returns before the call when there is no current record,
\* so Update is never given nil.
Update(current) ==
    /\ changes' = [op |-> "Update", replaced |-> Nil, prev |-> changes.arg,
                   arg |-> current, set |-> UpdateChanges(RegDetector, current)]
    /\ lastValues' = TrackedValues(current)
    /\ hasPrev' = TRUE

\* Records given to Update: every tracked value 0 except at the indices of
\* ones, which hold 1; the probed indices are x0, x30, SP and PC.
ProbeIndices == {0, 30, 31, 32}

RecordWith(ones) ==
    [ok |-> TRUE, Step |-> 0, Addr |-> 0, Offset |-> 0, Instr |-> <<"i">>,
     Regs |-> [i \in 0..30 |-> IF i \in ones THEN 1 ELSE 0],
     SP |-> IF 31 \in ones THEN 1 ELSE 0,
     PC |-> IF 32 \in ones THEN 1 ELSE 0]

Records == { RecordWith(ones) : ones \in SUBSET ProbeIndices }

\* ============================================================ the user
NoCommand == [nil |-> TRUE]

\* main's channel `make(chan bool, 1)` and the goroutine StartAutoStep
\* starts, which waits to receive from it.
ChanCap == 1

NoSend == [blocked |-> FALSE]

AutoStepInit ==
    /\ AutoStepChan = <<>>
    /\ uiSend = NoSend
    /\ auto = [pc |-> "recv", updated |-> FALSE]

UserInit ==
    /\ LastCommand = NoCommand
    /\ RepeatCount = 0
    /\ AutoStep = FALSE
    /\ StepDelay = 100
    /\ cmdRet = [text |-> <<>>, cmd |-> NoCommand, updated |-> FALSE]
    /\ AutoStepInit

\* ------------------------------------------- LoadInstructionsFromFile
\* Variant of the load that keeps the tracker it finds.
LoadedDetector_NotReset == RegDetector

\* The tracker LoadInstructionsFromFile installs after a successful read.
LoadedDetector == NewRegisterChangeDetector

\* UpdateDisplay(state, nil) after a load: nothing is drawn for an empty
\* file; otherwise UpdateRegView calls GetRegisterInfo, which gives the
\* current record, if there is one, to the tracker det.
DisplayAfterLoad(det) ==
    \E shown \in {IF totalLines' = 0 THEN Nil ELSE GetCurrentVal'} :
       IF shown = Nil
       THEN /\ lastValues' = det.lastValues
            /\ hasPrev' = det.hasPrev
            /\ changes' = [op |-> "Load", replaced |-> changes.arg, prev |-> Nil,
                           arg |-> Nil, set |-> {}]
       ELSE /\ lastValues' = TrackedValues(shown)
            /\ hasPrev' = TRUE
            /\ changes' = [op |-> "Load", replaced |-> changes.arg, prev |-> Nil,
                           arg |-> shown, set |-> UpdateChanges(det, shown)]

\* LoadInstructionsFromFile whose ReadTraceFile succeeds: the user state is
\* reset, a new tracker installed and the display updated. With the window
\* just loaded around line 0, the lines UpdateAsmView asks GetLine for are in
\* the window or beyond the file, so no reload starts.
LoadInstructionsFromFile ==
    /\ ReadTraceFile
    /\ LastCommand' = NoCommand
    /\ RepeatCount' = 0
    /\ AutoStep' = FALSE
    /\ DisplayAfterLoad(LoadedDetector)
    /\ UNCHANGED <<StepDelay, cmdRet>>

\* LoadInstructionsFromFile whose ReadTraceFile returns an error: the error is
\* returned before the user state is touched.
LoadInstructionsFromFileFails ==
    /\ \/ ReadTraceFileOpenFails
       \/ ReadTraceFileWindowFails
    /\ UNCHANGED <<detVars, userVars>>

\* ------------------------------------------------------- ParseCommand
\* strings.Fields: the pieces of text between runs of white space.
Fields(text) ==
    SelectSeq(Split([i \in 1..Len(text) |-> IF IsSpace(text[i]) THEN " " ELSE text[i]],
                    " "),
              LAMBDA piece : piece # <<>>)

\* The names of the switch on parts[0], by the command type they select.
CommandNames ==
    [CmdNext |-> { <<"n">>, <<"n", "e", "x", "t">> },
     CmdPrev |-> { <<"p">>, <<"p", "r", "e", "v">>,
                   <<"p", "r", "e", "v", "i", "o", "u", "s">> },
     CmdGoTo |-> { <<"g">>, <<"g", "o", "t", "o">> },
     CmdReg |-> { <<"r">>, <<"r", "e", "g">>,
                  <<"r", "e", "g", "i", "s", "t", "e", "r", "s">> },
     CmdClear |-> { <<"c">>, <<"c", "l", "e", "a", "r">> },
     CmdHelp |-> { <<"h">>, <<"h", "e", "l", "p">>, <<"?">> },
     CmdQuit |-> { <<"q">>, <<"q", "u", "i", "t">>, <<"e", "x", "i", "t">> },
     CmdRun |-> { <<"r", "u", "n">> },
     CmdStop |-> { <<"s", "t", "o", "p">> },
     CmdStep |-> { <<"s", "t", "e", "p">> }]

\* The fields of the User that ParseCommand may write.
UserState ==
    [LastCommand |-> LastCommand, RepeatCount |-> RepeatCount,
     AutoStep |-> AutoStep, StepDelay |-> StepDelay]

\* &Command{Raw: cmd, Args: parts[1:]}: Type has its zero value, CmdNext.
NewCommand(cmd, parts) ==
    [nil |-> FALSE, Raw |-> cmd, Type |-> "CmdNext", Args |-> Tail(parts)]

\* The `n5` form: a single token of two characters or more whose last
\* character is a digit that Atoi reads as a count above 0.
HasCountSuffix(parts) ==
    /\ Len(parts) = 1
    /\ Len(parts[1]) > 1
    /\ IsDigit(parts[1][Len(parts[1])])
    /\ Atoi(<<parts[1][Len(parts[1])]>>).val > 0

\* The command of the `n5` form: cmdPart is all but the last character,
\* numPart the last character; a cmdPart that is no name leaves the command
\* as NewCommand made it.
CountedCommand(cmd, parts) ==
    LET baseCmd == parts[1]
        cmdPart == SubSeq(baseCmd, 1, Len(baseCmd) - 1)
        numPart == SubSeq(baseCmd, Len(baseCmd), Len(baseCmd))
        count == Atoi(numPart).val
        command == NewCommand(cmd, parts)
    IN IF cmdPart \in CommandNames.CmdNext
       THEN [command EXCEPT !.Type = "CmdNext", !.Args = <<DecimalText(count)>>]
       ELSE IF cmdPart \in CommandNames.CmdPrev
       THEN [command EXCEPT !.Type = "CmdPrev", !.Args = <<DecimalText(count)>>]
       ELSE command

\* The command the switch on parts[0] makes.
NamedCommand(cmd, parts) ==
    LET command == NewCommand(cmd, parts)
        name == parts[1]
    IN IF name \in CommandNames.CmdNext
       THEN [command EXCEPT !.Type = "CmdNext",
                            !.Args = IF Len(parts) > 1 THEN <<parts[2]>> ELSE @]
       ELSE IF name \in CommandNames.CmdPrev
       THEN [command EXCEPT !.Type = "CmdPrev",
                            !.Args = IF Len(parts) > 1 THEN <<parts[2]>> ELSE @]
       ELSE IF \E type \in DOMAIN CommandNames : name \in CommandNames[type]
       THEN [command EXCEPT
               !.Type = CHOOSE type \in DOMAIN CommandNames : name \in CommandNames[type]]
       ELSE IF ~Atoi(name).err
       THEN [command EXCEPT !.Type = "CmdGoTo", !.Args = <<name>>]
       ELSE command

\* ParseCommand(text): the command returned (NoCommand for nil) and the
\* User fields as the call leaves them.
ParseCommand(text) ==
    LET cmd == TrimSpace(text)
        parts == Fields(cmd)
    IN IF cmd = <<>>
       THEN IF LastCommand # NoCommand /\ RepeatCount > 0
            THEN [cmd |-> IF LastCommand.Type = "CmdGoTo" THEN NoCommand
                          ELSE LastCommand,
                  user |-> [UserState EXCEPT !.RepeatCount = @ + 1]]
            ELSE [cmd |-> NoCommand, user |-> UserState]
       ELSE IF HasCountSuffix(parts)
       THEN LET command == CountedCommand(cmd, parts)
            IN [cmd |-> command,
                user |-> [UserState EXCEPT !.LastCommand = command,
                                           !.RepeatCount = 1]]
       ELSE LET command == NamedCommand(cmd, parts)
                delay == IF Len(parts) > 1 THEN Atoi(parts[2])
                         ELSE [err |-> TRUE, val |-> 0]
                switched ==
                    [UserState EXCEPT
                       !.AutoStep = IF command.Type = "CmdRun" THEN TRUE
                                    ELSE IF command.Type = "CmdStop" THEN FALSE
                                    ELSE @,
                       !.StepDelay = IF /\ command.Type = "CmdStep"
                                        /\ ~delay.err /\ delay.val > 0
                                     THEN delay.val ELSE @]
            IN [cmd |-> command,
                user |-> IF command.Type \in {"CmdNext", "CmdPrev", "CmdRun"}
                         THEN [switched EXCEPT !.LastCommand = command,
                                               !.RepeatCount = 1]
                         ELSE [switched EXCEPT !.LastCommand = NoCommand,
                                               !.RepeatCount = 0]]

\* ----------------------------------------------------- ExecuteCommand
\* What a handler has done to the store so far: the cursor, the cached
\* previous line, the reloads started, whether a call moved the cursor.
Unmoved ==
    [CurrentIndex |-> CurrentIndex, PrevLine |-> PrevLine, spawned |-> <<>>,
     updated |-> FALSE]

\* The count of a CmdNext or CmdPrev: Args[0] when it reads as a number
\* above 1, otherwise 1.
CountOf(cmd) ==
    IF /\ Len(cmd.Args) > 0
       /\ ~Atoi(cmd.Args[1]).err
       /\ Atoi(cmd.Args[1]).val > 1
    THEN Atoi(cmd.Args[1]).val
    ELSE 1

RECURSIVE NextLoop(_, _, _)
\* `for i := 0; i < count; i++ { if Next() {...} else {break} }` from i on.
NextLoop(i, count, st) ==
    IF i >= count \/ ~(st.CurrentIndex < totalLines - 1) THEN st
    ELSE NextLoop(i + 1, count,
                  [CurrentIndex |-> st.CurrentIndex + 1,
                   PrevLine |-> CurrentAt(st.CurrentIndex),
                   spawned |-> st.spawned \o NextSpawns(st.CurrentIndex + 1),
                   updated |-> TRUE])

RECURSIVE PrevLoop(_, _, _)
\* The same loop over Prev().
PrevLoop(i, count, st) ==
    IF i >= count \/ ~(st.CurrentIndex > 0) THEN st
    ELSE LET newIndex == st.CurrentIndex - 1
         IN PrevLoop(i + 1, count,
                     [CurrentIndex |-> newIndex,
                      PrevLine |-> PrevLineFor(newIndex),
                      spawned |-> st.spawned \o PrevLineSpawns(newIndex)
                                             \o PrevSpawns(newIndex),
                      updated |-> TRUE])

\* ExecuteCommand's effect on the store; the window does not change while
\* the handler runs, the reloads it starts run after it.
ExecuteCommand(cmd) ==
    IF cmd = NoCommand THEN Unmoved
    ELSE IF cmd.Type = "CmdNext" THEN NextLoop(0, CountOf(cmd), Unmoved)
    ELSE IF cmd.Type = "CmdPrev" THEN PrevLoop(0, CountOf(cmd), Unmoved)
    ELSE IF cmd.Type = "CmdGoTo"
    THEN IF Len(cmd.Args) > 0 /\ ~Atoi(cmd.Args[1]).err
                              /\ GoToValid(Atoi(cmd.Args[1]).val)
         THEN LET line == Atoi(cmd.Args[1]).val
              IN [CurrentIndex |-> line,
                  PrevLine |-> PrevLineFor(line),
                  spawned |-> PrevLineSpawns(line) \o <<line>>,
                  updated |-> TRUE]
         ELSE Unmoved
    ELSE IF cmd.Type \in {"CmdRun", "CmdStop"} THEN [Unmoved EXCEPT !.updated = TRUE]
    ELSE Unmoved

\* ------------------------------------------------------ UpdateDisplay
\* The lines UpdateAsmView shows: 51 around the cursor in the program, scaled
\* with the window.
DisplaySize == 1

\* UpdateAsmView's range of lines for a cursor at index.
DisplayRange(index) ==
    LET start0 == Max(index - DisplaySize \div 2, 0)
        end0 == start0 + DisplaySize
    IN IF end0 > totalLines
       THEN <<Max(totalLines - DisplaySize, 0), totalLines>>
       ELSE <<start0, end0>>

RECURSIVE DisplaySpawns(_, _)
\* The reloads UpdateAsmView's GetLine calls start for lines i to end - 1:
\* GetLine(i), and GetLine(i + 1) when line i is loaded and is not the last.
DisplaySpawns(i, end) ==
    IF i >= end THEN <<>>
    ELSE GetLineSpawns(i)
         \o (IF GetLineVal(i) # Nil /\ i + 1 < totalLines
             THEN GetLineSpawns(i + 1) ELSE <<>>)
         \o DisplaySpawns(i + 1, end)

\* Whether UpdateDisplay goes on to redraw the views after the command.
Redraws(cmd, updated) ==
    \/ cmd = NoCommand
    \/ updated
    \/ cmd.Type \in {"CmdRun", "CmdStop", "CmdStep"}

\* The input field's handler for Enter on text: ParseCommand, then
\* UpdateDisplay, which does nothing while no line is loaded, else runs
\* ExecuteCommand and redraws: UpdateAsmView reads lines through GetLine and
\* UpdateRegView gives the current record, if any, to the tracker. The
\* reloads started run once the handler has returned.
Input(text) ==
    /\ TrimSpace(text) # <<>>
    /\ \E parsed \in {ParseCommand(TrimSpace(text))} :
       \E done \in {IF totalLines = 0 THEN Unmoved ELSE ExecuteCommand(parsed.cmd)} :
       \E redraw \in {totalLines # 0 /\ Redraws(parsed.cmd, done.updated)} :
       \E range \in {DisplayRange(done.CurrentIndex)} :
       \E spawned \in {done.spawned
                       \o (IF redraw THEN DisplaySpawns(range[1], range[2]) ELSE <<>>)} :
       \E shown \in {IF redraw THEN CurrentAt(done.CurrentIndex) ELSE Nil} :
          /\ CanSpawn(spawned)
          /\ procs' = Spawn(procs, spawned)
          /\ CurrentIndex' = done.CurrentIndex
          /\ PrevLine' = done.PrevLine
          /\ LastCommand' = parsed.user.LastCommand
          /\ RepeatCount' = parsed.user.RepeatCount
          /\ AutoStep' = IF totalLines # 0 /\ parsed.cmd # NoCommand
                            /\ parsed.cmd.Type \in {"CmdRun", "CmdStop"}
                         THEN parsed.cmd.Type = "CmdRun"
                         ELSE parsed.user.AutoStep
          /\ StepDelay' = parsed.user.StepDelay
          /\ cmdRet' = [text |-> text, cmd |-> parsed.cmd, updated |-> done.updated]
          /\ IF shown # Nil THEN Update(shown) ELSE UNCHANGED detVars
    /\ ret' = [op |-> "Input", ok |-> TRUE]
    /\ UNCHANGED <<file, openStatus, FileName, totalLines, LoadedRange,
                   Instructions, isLoading>>

\* ------------------------------------------------------ auto-step
\* `state.AutoStepChan <- v` on the UI thread: it completes when the channel
\* has room, else the thread stays blocked in it.
Send(v) ==
    IF Len(AutoStepChan) < ChanCap
    THEN AutoStepChan' = Append(AutoStepChan, v) /\ uiSend' = NoSend
    ELSE uiSend' = [blocked |-> TRUE, val |-> v] /\ UNCHANGED AutoStepChan

\* The input field's whole handler for Enter on text, run by the UI thread:
\* ParseCommand and UpdateDisplay, then the send for a run or a stop.
Enter(text) ==
    /\ ~uiSend.blocked
    /\ Input(text)
    /\ IF cmdRet'.cmd # NoCommand /\ cmdRet'.cmd.Type = "CmdRun" THEN Send(TRUE)
       ELSE IF cmdRet'.cmd # NoCommand /\ cmdRet'.cmd.Type = "CmdStop" THEN Send(FALSE)
       ELSE UNCHANGED <<AutoStepChan, uiSend>>
    /\ UNCHANGED auto

\* The blocked send goes through once the goroutine has made room.
SendCompletes ==
    /\ uiSend.blocked
    /\ Len(AutoStepChan) < ChanCap
    /\ AutoStepChan' = Append(AutoStepChan, uiSend.val)
    /\ uiSend' = NoSend
    /\ UNCHANGED <<traceVars, detVars, userVars, auto>>

SetAuto(pc) == auto' = [auto EXCEPT !.pc = pc]

\* `case run := <-state.AutoStepChan`: a true enters the stepping loop, a
\* false clears AutoStep.
AutoReceive ==
    /\ auto.pc = "recv"
    /\ AutoStepChan # <<>>
    /\ AutoStepChan' = Tail(AutoStepChan)
    /\ IF Head(AutoStepChan)
       THEN SetAuto("test") /\ UNCHANGED AutoStep
       ELSE AutoStep' = FALSE /\ UNCHANGED auto
    /\ UNCHANGED <<traceVars, detVars, LastCommand, RepeatCount, StepDelay, cmdRet, uiSend>>

\* `for state.User.AutoStep {`
AutoTest ==
    /\ auto.pc = "test"
    /\ SetAuto(IF AutoStep THEN "exec" ELSE "recv")
    /\ UNCHANGED <<traceVars, detVars, userVars, AutoStepChan, uiSend>>

\* The command the loop executes, `&core.Command{Type: core.CmdNext}`.
AutoCommand == [nil |-> FALSE, Raw |-> <<>>, Type |-> "CmdNext", Args |-> <<>>]

\* `message, updated := state.User.ExecuteCommand(cmd)`, after which the
\* goroutine queues the redraw.
AutoExecute ==
    /\ auto.pc = "exec"
    /\ \E done \in {ExecuteCommand(AutoCommand)} :
          /\ CanSpawn(done.spawned)
          /\ procs' = Spawn(procs, done.spawned)
          /\ CurrentIndex' = done.CurrentIndex
          /\ PrevLine' = done.PrevLine
          /\ auto' = [pc |-> "draw", updated |-> done.updated]
    /\ UNCHANGED <<file, openStatus, FileName, totalLines, LoadedRange, Instructions,
                   isLoading, calls, ret, target, detVars, userVars, AutoStepChan, uiSend>>

\* The UI thread, free of any handler, runs the redraw the loop queued with
\* QueueUpdateDraw (UpdateAsmView and UpdateRegView when the step moved the
\* cursor); QueueUpdateDraw then returns in the goroutine.
AutoRedraw ==
    /\ auto.pc = "draw"
    /\ ~uiSend.blocked
    /\ \E range \in {DisplayRange(CurrentIndex)} :
       \E spawned \in {IF auto.updated THEN DisplaySpawns(range[1], range[2]) ELSE <<>>} :
       \E shown \in {IF auto.updated THEN CurrentAt(CurrentIndex) ELSE Nil} :
          /\ CanSpawn(spawned)
          /\ procs' = Spawn(procs, spawned)
          /\ IF shown # Nil THEN Update(shown) ELSE UNCHANGED detVars
    /\ SetAuto("sleep")
    /\ UNCHANGED <<file, openStatus, FileName, totalLines, LoadedRange, Instructions,
                   CurrentIndex, PrevLine, isLoading, calls, ret, target, userVars,
                   AutoStepChan, uiSend>>

\* time.Sleep, then the test for the end of the trace, which clears AutoStep
\* and queues the "Reached end of trace" update before the break.
AutoEndTest ==
    /\ auto.pc = "sleep"
    /\ IF CurrentIndex >= totalLines - 1
       THEN AutoStep' = FALSE /\ SetAuto("drawEnd")
       ELSE UNCHANGED AutoStep /\ SetAuto("test")
    /\ UNCHANGED <<traceVars, detVars, LastCommand, RepeatCount, StepDelay, cmdRet,
                   AutoStepChan, uiSend>>

\* The UI thread runs that update; the goroutine leaves the loop and goes
\* back to receiving.
AutoRedrawEnd ==
    /\ auto.pc = "drawEnd"
    /\ ~uiSend.blocked
    /\ SetAuto("recv")
    /\ UNCHANGED <<traceVars, detVars, userVars, AutoStepChan, uiSend>>

\* One step of the StartAutoStep goroutine.
AutoStepLoop ==
    \/ AutoReceive
    \/ AutoTest
    \/ AutoExecute
    \/ AutoRedraw
    \/ AutoEndTest
    \/ AutoRedrawEnd

\* ===================================================== specifications
\* The parts of the program a specification leaves untouched, as constructed.
LogIdle ==
    /\ logFile = <<>>
    /\ LogStoreInit

TraceIdle ==
    /\ file = <<>>
    /\ EmptyStore
    /\ target = 0

FnIdle ==
    /\ fnArg = [fn |-> "none"]
    /\ fnRet = [done |-> FALSE]

\* The trace store with its reload goroutines; no log file is loaded.
Init ==
    /\ TraceInit
    /\ target = 0
    /\ LogIdle
    /\ DetectorInit
    /\ UserInit
    /\ FnIdle

TraceNext ==
    /\ \/ CallerStep
       \/ \E p \in Procs : LoadWindowStep(p)
    /\ UNCHANGED nonTraceVars

Spec == Init /\ [][TraceNext]_vars

\* The same store on files whose lines all parse, when every started
\* goroutine keeps being scheduled until it returns.
FairInit ==
    /\ Init
    /\ \A k \in 0..(Len(file) - 1) : ParseLineOf(file, k) # Nil

FairSpec ==
    /\ FairInit
    /\ [][TraceNext]_vars
    /\ \A p \in Procs : WF_vars(LoadWindowStep(p) /\ UNCHANGED nonTraceVars)

\* The log store: NewLogManager, the two loads, then lookups.
LogInit ==
    /\ TraceIdle
    /\ logFile \in LogFiles
    /\ LogStoreInit
    /\ DetectorInit
    /\ UserInit
    /\ FnIdle

LogNext ==
    /\ \/ LoadBLLog
       \/ LoadRWLog
       \/ \E step \in QuerySteps : GetBLLogsForStep(step)
       \/ \E step \in QuerySteps : GetRWLogsForStep(step)
    /\ UNCHANGED nonLogVars

LogSpec == LogInit /\ [][LogNext]_vars

\* A caller that, once the file is open, only keeps asking for line `target`,
\* on a file that stays readable; every goroutine keeps being scheduled and
\* the caller keeps calling.
LiveInit ==
    /\ TraceInit
    /\ target \in 0..(MaxLines - 1)
    /\ LogIdle
    /\ DetectorInit
    /\ UserInit
    /\ FnIdle

LiveLoadWindowStep(p) ==
    /\ \/ LoadWindow_check(p)
       \/ LoadWindow_setBusy(p)
       \/ LoadWindow_calc(p)
       \/ loadFileWindow_open(p)
       \/ loadFileWindow_scan(p)
       \/ loadFileWindow_range(p)
       \/ loadFileWindow_range2(p)
       \/ loadFileWindow_adjust(p)
       \/ LoadWindow_release(p)
    /\ UNCHANGED nonTraceVars

PollTarget ==
    /\ openStatus = "ok"
    /\ GetLine(target)
    /\ UNCHANGED <<calls, target>>
    /\ UNCHANGED nonTraceVars

LiveNext ==
    \/ ReadTraceFile /\ UNCHANGED <<calls, target>> /\ UNCHANGED nonTraceVars
    \/ PollTarget
    \/ \E p \in Procs : LiveLoadWindowStep(p)

LiveSpec ==
    /\ LiveInit
    /\ [][LiveNext]_vars
    /\ WF_vars(PollTarget)
    /\ \A p \in Procs : WF_vars(LiveLoadWindowStep(p))

\* A caller that makes its next call only once every goroutine has returned,
\* and makes no call that starts two goroutines: one reload runs at a time.
Quiescent == \A p \in Procs : procs[p].pc = "idle"

SoloCallerStep ==
    /\ Quiescent
    /\ CallerStep
    /\ Cardinality({ p \in Procs : procs'[p].pc # "idle" }) <= 1

SoloNext ==
    /\ \/ SoloCallerStep
       \/ \E p \in Procs : LoadWindowStep(p)
    /\ UNCHANGED nonTraceVars

SoloSpec == Init /\ [][SoloNext]_vars

\* A caller that opens a file of up to MaxJumpLines lines and makes one
\* GoTo(target), after which no call follows; the file stays readable.
JumpInit ==
    /\ file \in FilesUpTo(MaxJumpLines)
    /\ EmptyStore
    /\ target \in 0..(MaxJumpLines - 1)
    /\ LogIdle
    /\ DetectorInit
    /\ UserInit
    /\ FnIdle

JumpTo ==
    /\ ret = [op |-> "Open", ok |-> TRUE]
    /\ GoTo(target)
    /\ UNCHANGED <<calls, target>>
    /\ UNCHANGED nonTraceVars

JumpNext ==
    \/ ReadTraceFile /\ UNCHANGED <<calls, target>> /\ UNCHANGED nonTraceVars
    \/ JumpTo
    \/ \E p \in Procs : LiveLoadWindowStep(p)

JumpSpec == JumpInit /\ [][JumpNext]_vars

\* Functions applied to arguments drawn from bounded sets.
WindowArgs ==
    { [fn |-> "LoadWindow", center |-> c, total |-> t, windowSize |-> k] :
        c \in (0 - 2)..(MaxFnTotal + 2), t \in 0..MaxFnTotal, k \in 1..MaxFnWindow }

\* A line whose fields all differ: field k (0-based) holds k in decimal, the
\* instruction field a quoted text.
BaseFields ==
    [f \in 1..37 |-> IF f = 4 THEN <<"\"", "i", "\"">> ELSE DecimalText(f - 1)]

\* What one field of the line is replaced by: numerals in decimal, with the
\* 0x, 0b and leading-0 forms, hexadecimal without prefix, padded with
\* spaces, and texts that are no numeral.
FieldTexts ==
    { <<"7">>, <<"1", "0">>, <<"1", "f">>, <<"0", "x", "1", "f">>,
      <<"0", "1", "0">>, <<"0", "8">>, <<" ", "7", " ">>, <<>>, <<"x">>,
      <<"0", "b", "1", "1">>, <<"-", "1">> }

\* Lines of 37 fields with one field replaced, and lines of 36 and 38 fields.
ParseLineArgs ==
    { [fn |-> "ParseLine",
       line |-> Join([BaseFields EXCEPT ![pos] = t], "|")] :
        pos \in 1..37, t \in FieldTexts }
    \cup { [fn |-> "ParseLine", line |-> Join(SubSeq(BaseFields, 1, 36), "|")],
           [fn |-> "ParseLine", line |-> Join(Append(BaseFields, <<"0">>), "|")] }

\* Memory-log header lines `<step>: (k)(<address>+<offset>)` and
\* `<step>: (k)(<address>)`.
RWSteps == {0, 1, 12}
RWAddresses == { <<"0", "x", "7", "f">>, <<"0", "x", "1", "0">> }
RWOffsets == { <<>>, <<"0", "x", "8">>, <<"1", "6">> }

RWHeader(step, kind, address, offset) ==
    DecimalText(step) \o <<":", " ", "(", kind, ")", "(">> \o address
        \o (IF offset = <<>> THEN <<>> ELSE <<"+">> \o offset) \o <<")">>

ParseRWLineArgs ==
    { [fn |-> "ParseRWLine", step |-> n, kind |-> k, address |-> a, offset |-> o,
       line |-> RWHeader(n, k, a, o)] :
        n \in RWSteps, k \in {"r", "w"}, a \in RWAddresses, o \in RWOffsets }

FnArgs == WindowArgs \cup ParseLineArgs \cup ParseRWLineArgs

FnInit ==
    /\ TraceIdle
    /\ LogIdle
    /\ DetectorInit
    /\ UserInit
    /\ fnArg \in FnArgs
    /\ fnRet = [done |-> FALSE]

\* The window computation of LoadWindow.
ApplyLoadWindow ==
    /\ fnArg.fn = "LoadWindow"
    /\ ~fnRet.done
    /\ fnRet' = [done |-> TRUE,
                 val |-> WindowOf(fnArg.center, fnArg.total, fnArg.windowSize)]
    /\ UNCHANGED fnArg

ApplyParseLine ==
    /\ fnArg.fn = "ParseLine"
    /\ ~fnRet.done
    /\ fnRet' = [done |-> TRUE, val |-> ParseLine(fnArg.line)]
    /\ UNCHANGED fnArg

ApplyParseRWLine ==
    /\ fnArg.fn = "ParseRWLine"
    /\ ~fnRet.done
    /\ fnRet' = [done |-> TRUE, val |-> ParseRWLine(fnArg.line)]
    /\ UNCHANGED fnArg

FnNext ==
    /\ \/ ApplyLoadWindow
       \/ ApplyParseLine
       \/ ApplyParseRWLine
    /\ UNCHANGED <<traceVars, logVars, detVars, userVars, autoVars>>

FnSpec == FnInit /\ [][FnNext]_vars

\* The register tracker of the user interface: Update on any record, before
\* and after the one load of the trace file.
DetectorSpecInit ==
    /\ TraceInit
    /\ target = 0
    /\ LogIdle
    /\ DetectorInit
    /\ UserInit
    /\ FnIdle

DetectorNext ==
    /\ \/ \E current \in Records : Update(current) /\ UNCHANGED <<traceVars, userVars>>
       \/ LoadInstructionsFromFile /\ UNCHANGED <<calls, target>>
       \/ LoadInstructionsFromFileFails /\ UNCHANGED <<calls, target>>
    /\ UNCHANGED <<logVars, fnVars, autoVars>>

DetectorSpec == DetectorSpecInit /\ [][DetectorNext]_vars

\* The user interface: the load of the trace file, commands typed into the
\* input field, and the reloads they start. The texts typed are the stepping
\* commands with and without a count, and a line number.
MaxInputs == 2

CountTexts == { <<"1">>, <<"2">>, <<"5">>, <<"1", "0">>, <<"1", "2">> }

InputTexts ==
    { <<"n">>, <<"p">>, <<"n", " ", "2">>, <<"1">>, <<" ">> }
    \cup { <<"n">> \o k : k \in CountTexts }
    \cup { <<"p">> \o k : k \in CountTexts }

UserStep ==
    /\ calls < MaxInputs
    /\ calls' = calls + 1
    /\ \E text \in InputTexts : Input(text)
    /\ UNCHANGED target

UserNext ==
    /\ \/ LoadInstructionsFromFile /\ UNCHANGED <<calls, target>>
       \/ LoadInstructionsFromFileFails /\ UNCHANGED <<calls, target>>
       \/ UserStep
       \/ \E p \in Procs : LoadWindowStep(p) /\ UNCHANGED <<detVars, userVars>>
    /\ UNCHANGED <<logVars, fnVars, autoVars>>

UserSpec == DetectorSpecInit /\ [][UserNext]_vars

\* The same user interface with other texts typed: line numbers on their own,
\* a step, and first tokens that are no command name and no number (the `s`
\* of the help text's "s/stop", and a letter no command uses).
NumberTexts == { <<"0">>, <<"1">>, <<"2">>, <<"1", "0">>, <<"1", "2">> }

UnknownTexts == { <<"s">>, <<"x">> }

CommandTexts == { <<"n">> } \cup NumberTexts \cup UnknownTexts

CommandStep ==
    /\ calls < MaxInputs
    /\ calls' = calls + 1
    /\ \E text \in CommandTexts : Input(text)
    /\ UNCHANGED target

CommandNext ==
    /\ \/ LoadInstructionsFromFile /\ UNCHANGED <<calls, target>>
       \/ LoadInstructionsFromFileFails /\ UNCHANGED <<calls, target>>
       \/ CommandStep
       \/ \E p \in Procs : LoadWindowStep(p) /\ UNCHANGED <<detVars, userVars>>
    /\ UNCHANGED <<logVars, fnVars, autoVars>>

CommandSpec == DetectorSpecInit /\ [][CommandNext]_vars

\* The user interface with the auto-step loop: a trace file of up to
\* MaxAutoLines lines that all parse is loaded, run and stop are typed up to
\* MaxAutoInputs times, and the UI thread and every goroutine keep being
\* scheduled.
MaxAutoInputs == 3
MaxAutoLines == 2

AutoTexts == { <<"r", "u", "n">>, <<"s", "t", "o", "p">> }

AutoInit ==
    /\ DetectorSpecInit
    /\ Len(file) <= MaxAutoLines
    /\ \A k \in 0..(Len(file) - 1) : ParseLineOf(file, k) # Nil

AutoInput ==
    /\ calls < MaxAutoInputs
    /\ calls' = calls + 1
    /\ \E text \in AutoTexts : Enter(text)
    /\ UNCHANGED <<target, logVars, fnVars>>

AutoLoad ==
    /\ \/ LoadInstructionsFromFile
       \/ LoadInstructionsFromFileFails
    /\ UNCHANGED <<calls, target, logVars, fnVars, autoVars>>

AutoSend == SendCompletes /\ UNCHANGED <<logVars, fnVars>>

AutoLoop == AutoStepLoop /\ UNCHANGED <<logVars, fnVars>>

AutoLoadWindowStep(p) ==
    LoadWindowStep(p) /\ UNCHANGED <<detVars, userVars, logVars, fnVars, autoVars>>

AutoNext ==
    \/ AutoLoad
    \/ AutoInput
    \/ AutoSend
    \/ AutoLoop
    \/ \E p \in Procs : AutoLoadWindowStep(p)

AutoSpec ==
    /\ AutoInit
    /\ [][AutoNext]_vars
    /\ WF_vars(AutoSend)
    /\ WF_vars(AutoLoop)
    /\ \A p \in Procs : WF_vars(AutoLoadWindowStep(p))

\* ============================================================== claims
\* The window array is the scan of the loaded bounds.
WindowIntact ==
    \A i \in 0..(totalLines - 1) :
        (LoadedRange[1] <= i /\ i < LoadedRange[2]) =>
            (GetLineHit(i) /\ GetLineVal(i) = ParseLineOf(file, i))

\* C1: while reloads run beside the caller, the loaded bounds and the window
\* array always belong to the same window: every line inside the bounds is in
\* the array and the record held for line i is the parse of file line i.
C1_NoTornWindow == openStatus = "ok" => WindowIntact

\* pc values of a goroutine that is past the busy check and is scanning the
\* file or replacing the window.
ReloadingPcs == {"open", "scan", "range", "range2", "adjust"}

\* C2: no two LoadWindow executions are at once past the busy check and
\* scanning or replacing the window.
C2_SingleFlight ==
    Cardinality({ p \in Procs : procs[p].pc \in ReloadingPcs }) <= 1

\* C3: a failing navigation call (Next at the last line, Prev at line 0, GoTo
\* outside [0,T)) returns false, leaves the cursor, the cached previous line,
\* the loaded bounds and the window contents as they were and starts no reload.
C3_FailedNavigationChangesNothing ==
    [][ ( \/ (Next /\ CurrentIndex = totalLines - 1)
          \/ (Prev /\ CurrentIndex = 0)
          \/ (\E i \in Indices : GoTo(i) /\ (i < 0 \/ i >= totalLines)) )
        => ( /\ ~ret'.ok
             /\ UNCHANGED <<CurrentIndex, PrevLine, LoadedRange, Instructions,
                            procs, isLoading, totalLines, FileName>> ) ]_vars

\* A Next at the last line of an opened file of two lines or more has just
\* returned false.
C3_Witness ==
    /\ openStatus = "ok"
    /\ totalLines >= 2
    /\ CurrentIndex = totalLines - 1
    /\ ret = [op |-> "Next", ok |-> FALSE]

\* C4: after a successful open of a file of T >= 1 lines the cursor is always
\* in [0, T).
C4_CursorInRange ==
    (openStatus = "ok" /\ totalLines >= 1) =>
        (0 <= CurrentIndex /\ CurrentIndex < totalLines)

\* C5: after a successful open the loaded bounds always satisfy
\* 0 <= start <= end <= T and end - start <= min(windowSize, T).
C5_WindowBounds ==
    openStatus = "ok" =>
        /\ 0 <= LoadedRange[1]
        /\ LoadedRange[1] <= LoadedRange[2]
        /\ LoadedRange[2] <= totalLines
        /\ LoadedRange[2] - LoadedRange[1] <= Min(WindowSize, totalLines)

\* C6: when the caller keeps calling GetLine(i) for a well-formed line i of
\* the opened file and every started reload completes, some GetLine(i) call
\* eventually returns a record.
C6_GetLineEventuallyLoaded ==
    <>(openStatus = "ok" /\ target < totalLines /\ ParseLineOf(file, target) # Nil)
        => <>(ret = [op |-> "GetLine", ok |-> TRUE])

\* C7: GetLine(i) for a line of the file outside the loaded bounds returns nil
\* and starts exactly one reload, centered on i; GetLine(i) for i inside the
\* loaded bounds, or outside [0,T), starts none.
C7_GetLineReloads ==
    [][ \A i \in Indices :
          GetLine(i) =>
            IF i >= 0 /\ i < totalLines
               /\ ~(LoadedRange[1] <= i /\ i < LoadedRange[2])
            THEN ~ret'.ok /\ procs' = Spawn(procs, <<i>>)
            ELSE procs' = procs ]_vars

\* The map the last lookup read.
LookedUpLogs == IF lookupRet.op = "BL" THEN BlLogs ELSE RwLogs

SetMax(S) == CHOOSE x \in S : \A y \in S : y <= x

\* The list at step if it is recorded, else the list at the greatest recorded
\* step of `below`, else the empty list.
ListAtOrNearest(m, step, below) ==
    IF step \in DOMAIN m THEN m[step]
    ELSE IF below = {} THEN <<>>
    ELSE m[SetMax(below)]

\* C8: Lookup(s) returns the list stored at s if s is recorded,
\* otherwise the list at the greatest recorded step less than s, and the empty
\* list exactly when no recorded step is <= s, whatever the scan order.
C8_LookupNearest ==
    lookupRet.op # "none" =>
        LET m == LookedUpLogs
            s == lookupRet.step
        IN /\ lookupRet.logs = ListAtOrNearest(m, s, { t \in DOMAIN m : t < s })
           /\ (lookupRet.logs = <<>>) <=> ({ t \in DOMAIN m : t <= s } = {})

\* A line the loader takes for a header and whose step is a number.
IsGoodHeader(line) == ~line.blank /\ line.hdr /\ ~Atoi(line.stepText).err
\* A line the loader takes for a header and whose step is no number.
IsMalformedHeader(line) == ~line.blank /\ line.hdr /\ Atoi(line.stepText).err
NotMalformedHeader(line) == ~IsMalformedHeader(line)

RECURSIVE HeaderNos(_, _)
\* The line numbers of the header lines of f with step s, in file order.
HeaderNos(f, s) ==
    IF f = <<>> THEN <<>>
    ELSE (IF IsGoodHeader(Head(f)) /\ Atoi(Head(f).stepText).val = s
          THEN <<Head(f).no>> ELSE <<>>) \o HeaderNos(Tail(f), s)

\* The line numbers of the entries stored at step s.
StoredNos(m, s) ==
    IF s \in DOMAIN m THEN [i \in 1..Len(m[s]) |-> m[s][i].Content.no] ELSE <<>>

HeaderSteps(f) == { Atoi(f[i].stepText).val : i \in { j \in 1..Len(f) : IsGoodHeader(f[j]) } }

OneEntryPerHeader(m) ==
    \A s \in DOMAIN m \cup HeaderSteps(logFile) : StoredNos(m, s) = HeaderNos(logFile, s)

\* C9: after a load, the list stored at each step holds exactly one entry per
\* header line of the file with that step, in file order.
C9_OneEntryPerHeader ==
    /\ "BL" \in logLoaded => OneEntryPerHeader(BlLogs)
    /\ "RW" \in logLoaded => OneEntryPerHeader(RwLogs)

\* C10: a malformed header line is skipped: the load completes and stores what
\* it would store were the malformed lines not in the file.
C10_MalformedHeaderSkipped ==
    /\ "BL" \in logLoaded => BlLogs = LoadLog(<<>>, SelectSeq(logFile, NotMalformedHeader))
    /\ "RW" \in logLoaded => RwLogs = LoadLog(<<>>, SelectSeq(logFile, NotMalformedHeader))

\* C11: a ReadTraceFile that returns an error because one of its file opens
\* failed leaves the total line count, the file name, the loaded bounds, the
\* window contents and the cursor as they were.
C11_FailedOpenChangesNothing ==
    [][ (ReadTraceFileOpenFails \/ ReadTraceFileWindowFails)
        => UNCHANGED <<totalLines, FileName, LoadedRange, Instructions, CurrentIndex>> ]_vars

\* Which of its cases GetLine(index) is in.
GetLineCase(index) ==
    IF index < 0 \/ index >= totalLines THEN "no such line"
    ELSE IF ~GetLineHit(index) THEN "window miss"
    ELSE IF GetLineVal(index) = Nil THEN "absent record"
    ELSE "record"

\* C15: the result of GetLine tells apart a line that does not exist, a line
\* outside the loaded window and a loaded line that failed to parse: two calls
\* in different cases never return the same result.
C15_GetLineOutcomesDistinct ==
    openStatus = "ok" =>
        \A i, j \in Indices :
            GetLineCase(i) # GetLineCase(j) => GetLineVal(i) # GetLineVal(j)

C16_GoToLoadsItsWindow ==
    (ret = [op |-> "GoTo", ok |-> TRUE] /\ Quiescent)
        => LoadedRange = WindowFor(target, totalLines)

\* C20: for every center c, total T >= 0 and window size K >= 1 a reload
\* computes start = max(0, min(c - K/2, T - K)) and end = min(start + K, T),
\* so that end - start = min(K, T) whenever c - K/2 <= T.
C20_WindowFormula ==
    (fnArg.fn = "LoadWindow" /\ fnRet.done) =>
        LET c == fnArg.center
            T == fnArg.total
            K == fnArg.windowSize
            start == Max(0, Min(c - K \div 2, T - K))
            end == Min(start + K, T)
        IN /\ fnRet.val = <<start, end>>
           /\ (c - K \div 2 <= T) => (end - start = Min(K, T))

\* A window was computed for a file shorter than the window size and a
\* center past its end.
C20_Witness ==
    /\ fnArg.fn = "LoadWindow"
    /\ fnRet.done
    /\ fnArg.total >= 1
    /\ fnArg.total < fnArg.windowSize
    /\ fnArg.center > fnArg.total

\* A field read as the step is to be read: one or more hexadecimal digits.
HexField(text) ==
    LET t == TrimSpace(text)
    IN IF t # <<>> /\ \A i \in 1..Len(t) : DigitOf(t[i]) < 16
       THEN [valid |-> TRUE, val |-> ValueIn(16, t)]
       ELSE [valid |-> FALSE, val |-> 0]

\* A field read as the other numeric fields are to be read: 0x and
\* hexadecimal digits, or decimal digits.
NumericField(text) ==
    LET t == TrimSpace(text)
    IN IF Len(t) >= 3 /\ t[1] = "0" /\ Lower(t[2]) = "x"
          /\ \A i \in 3..Len(t) : DigitOf(t[i]) < 16
       THEN [valid |-> TRUE, val |-> ValueIn(16, SubSeq(t, 3, Len(t)))]
       ELSE IF t # <<>> /\ \A i \in 1..Len(t) : IsDigit(t[i])
       THEN [valid |-> TRUE, val |-> ValueIn(10, t)]
       ELSE [valid |-> FALSE, val |-> 0]

\* C17: for a line of exactly 37 fields whose numeric fields are valid,
\* ParseLine returns a record whose step is field 0 read in base 16, whose
\* address and offset are fields 1 and 2, whose x_i is field 4+i for i in
\* 0..30, whose SP is field 35 and PC field 36, each value preserved; for a
\* line of any other field count it returns an error and no record.
C17_ParseLinePreservesFields ==
    (fnArg.fn = "ParseLine" /\ fnRet.done) =>
        LET fields == Split(fnArg.line, "|")
            r == fnRet.val
        IN IF Len(fields) # 37 THEN r = Nil
           ELSE (/\ HexField(fields[1]).valid
                 /\ \A k \in {1, 2} \cup (4..36) : NumericField(fields[k + 1]).valid)
                => /\ r # Nil
                   /\ r.Step = HexField(fields[1]).val
                   /\ r.Addr = NumericField(fields[2]).val
                   /\ r.Offset = NumericField(fields[3]).val
                   /\ \A i \in 0..30 : r.Regs[i] = NumericField(fields[4 + i + 1]).val
                   /\ r.SP = NumericField(fields[36]).val
                   /\ r.PC = NumericField(fields[37]).val

\* C18: for a memory-log header `<step>: (k)(<address>+<offset>)` with k
\* in {r, w} the entry has that step, kind k, address <address> and offset
\* <offset>; for `<step>: (k)(<address>)` the address is <address> and the
\* offset is empty.
C18_ParseRWLineFields ==
    (fnArg.fn = "ParseRWLine" /\ fnRet.done) =>
        /\ ~fnRet.val.err
        /\ fnRet.val.Step = fnArg.step
        /\ fnRet.val.Type = fnArg.kind
        /\ fnRet.val.Address = fnArg.address
        /\ fnRet.val.Offset = fnArg.offset

\* The indices 0..32 at which the tracked values of two records differ.
DiffIndices(a, b) ==
    { j \in 0..30 : a.Regs[j] # b.Regs[j] }
        \cup (IF a.SP # b.SP THEN {31} ELSE {})
        \cup (IF a.PC # b.PC THEN {32} ELSE {})

\* C13: the first Update on a fresh tracker returns the empty set; each later
\* one returns exactly the indices (0-30 = x0..x30, 31 = SP, 32 = PC) at which
\* its record differs from the one of the call before, whatever came earlier.
C13_UpdateReturnsDiff ==
    changes.op = "Update" =>
        changes.set = IF changes.prev = Nil THEN {}
                      ELSE DiffIndices(changes.prev, changes.arg)

\* An Update has just reported a changed PC and an unchanged x0 against the
\* record of the call before.
C13_Witness ==
    /\ changes.op = "Update"
    /\ changes.prev # Nil
    /\ 32 \in changes.set
    /\ 0 \notin changes.set

\* C14: after a successful load the tracker is fresh: the first Update after
\* the load (the one of the load's own display update, or else the next)
\* returns the empty set, whatever was given to Update before the load.
C14_FreshAfterLoad ==
    [][ /\ changes'.op = "Load" => changes'.set = {}
        /\ (changes.op = "Load" /\ changes.arg = Nil /\ changes'.op = "Update")
              => changes'.set = {} ]_vars

\* A load has just shown a record that differs from the last one given to
\* the tracker it replaced.
C14_Witness ==
    /\ changes.op = "Load"
    /\ changes.replaced # Nil
    /\ changes.arg # Nil
    /\ DiffIndices(changes.replaced, changes.arg) # {}

\* The text of the command n<k> or p<k>.
CountedText(letter, k) == <<letter>> \o DecimalText(k)

\* Counts typed after n and p.
CommandCounts == {1, 2, 5, 10, 12}

\* C19: with a file loaded and the cursor on one of its lines, the command
\* n<k> moves the cursor forward by min(k, T-1-cursor) and p<k> moves it
\* backward by min(k, cursor), for every positive decimal count k.
C19_CountedStep ==
    [][ (totalLines > 0 /\ CurrentIndex >= 0 /\ CurrentIndex < totalLines) =>
          \A k \in CommandCounts :
            /\ Input(CountedText("n", k)) =>
                 CurrentIndex' = CurrentIndex + Min(k, totalLines - 1 - CurrentIndex)
            /\ Input(CountedText("p", k)) =>
                 CurrentIndex' = CurrentIndex - Min(k, CurrentIndex) ]_vars

\* C21: a reload whose computed bounds are the loaded ones returns at the
\* bounds test: it does not go on to read the file, and neither that step
\* nor its return changes the window contents, the loaded bounds or the
\* cursor, wherever the cursor is.
C21_SameBoundsNoOp ==
    [][ \A p \in Procs :
          /\ ( /\ LoadWindow_calc(p)
               /\ WindowFor(procs[p].center, totalLines) = LoadedRange )
             => ( /\ procs'[p].pc = "release"
                  /\ UNCHANGED <<Instructions, LoadedRange, CurrentIndex>> )
          /\ (procs[p].skipped /\ LoadWindow_release(p))
             => UNCHANGED <<Instructions, LoadedRange, CurrentIndex>> ]_vars

\* A reload has returned at the bounds test while the cursor is outside the
\* loaded bounds.
C21_Witness ==
    \E p \in Procs :
        /\ procs[p].pc = "release"
        /\ procs[p].skipped
        /\ <<procs[p].start, procs[p].end>> = LoadedRange
        /\ (CurrentIndex < LoadedRange[1] \/ CurrentIndex >= LoadedRange[2])

\* pc values of a LoadWindow execution that is past the entry test and has
\* not returned.
InFlightPcs == {"busy", "calc", "open", "scan", "range", "range2", "adjust", "release"}

\* C22: a reload request whose entry test runs while another reload is in
\* flight returns at once and changes nothing, and a goroutine only ever
\* starts within a call of the caller: nothing is queued or retried.
C22_RequestInFlightDropped ==
    [][ \A p \in Procs :
          /\ ( /\ LoadWindow_check(p)
               /\ \E q \in Procs \ {p} : procs[q].pc \in InFlightPcs )
             => ( /\ procs'[p] = IdleProc
                  /\ UNCHANGED <<Instructions, LoadedRange, CurrentIndex, PrevLine,
                                 isLoading, totalLines, FileName>> )
          /\ (procs[p].pc = "idle" /\ procs'[p].pc # "idle") => calls' = calls + 1 ]_vars

\* Centers of the reloads started by a step: the goroutines it takes from
\* idle to LoadWindow's entry.
StartedCenters ==
    { procs'[p].center : p \in { q \in Procs : procs[q].pc = "idle" /\ procs'[q].pc = "check" } }

\* A step that is a successful call of op by the caller.
Succeeds(op) == calls' = calls + 1 /\ ret' = [op |-> op, ok |-> TRUE]

\* C23: a successful Next starts a reload centered on the new cursor exactly
\* when the new cursor >= end - margin, a successful Prev exactly when the new
\* cursor <= start + margin; so the step that brings the cursor to the last
\* line of the window, or to its first, starts the reload while the cursor is
\* still inside.
C23_EdgeTriggersReload ==
    [][ /\ Succeeds("Next") =>
             /\ CurrentIndex' = CurrentIndex + 1
             /\ (CurrentIndex' \in StartedCenters) <=> (CurrentIndex' >= LoadedRange[2] - Margin)
             /\ (CurrentIndex' = LoadedRange[2] - 1) => (CurrentIndex' \in StartedCenters)
        /\ Succeeds("Prev") =>
             /\ CurrentIndex' = CurrentIndex - 1
             /\ (CurrentIndex' \in StartedCenters) <=> (CurrentIndex' <= LoadedRange[1] + Margin)
             /\ (CurrentIndex' = LoadedRange[1]) => (CurrentIndex' \in StartedCenters) ]_vars

\* Next has brought the cursor to the last line of the window and its reload
\* has been started.
C23_Witness ==
    /\ ret = [op |-> "Next", ok |-> TRUE]
    /\ CurrentIndex = LoadedRange[2] - 1
    /\ CurrentIndex >= LoadedRange[1]
    /\ \E p \in Procs : procs[p].pc = "check" /\ procs[p].center = CurrentIndex

\* Next has left the cursor short of the margin and no reload is under way.
C23_WitnessNoReload ==
    /\ ret = [op |-> "Next", ok |-> TRUE]
    /\ CurrentIndex < LoadedRange[2] - Margin
    /\ \A p \in Procs : procs[p].pc = "idle"

\* The number of lines a reload of [start, end) reads from the file.
WindowLines(start, end) == Max(Min(end, Len(file)) - start, 0)

\* C24: the reload's last step moves the cursor only when it is outside the
\* new bounds [start, end), and then to the midpoint of the window it loaded,
\* start + (lines of the window) / 2; a cursor inside the bounds stays, and no
\* other step of a reload writes the cursor.
C24_ReloadMovesCursorToMidpoint ==
    [][ /\ \A p \in Procs :
             loadFileWindow_adjust(p) =>
                 LET start == procs[p].start
                     end == procs[p].end
                 IN IF CurrentIndex >= start /\ CurrentIndex < end
                    THEN CurrentIndex' = CurrentIndex
                    ELSE CurrentIndex' = start + WindowLines(start, end) \div 2
        /\ (calls' = calls /\ CurrentIndex' # CurrentIndex) =>
             \E p \in Procs : procs[p].pc = "adjust" /\ procs'[p].pc = "release" ]_vars

\* A reload has just moved a cursor that was outside its bounds.
C24_Witness ==
    \E p \in Procs :
        /\ procs[p].pc = "release"
        /\ ~procs[p].skipped
        /\ <<procs[p].start, procs[p].end>> = LoadedRange
        /\ procs[p].center # CurrentIndex
        /\ CurrentIndex = procs[p].start + WindowLines(procs[p].start, procs[p].end) \div 2
        /\ ret.op = "GetLine"

\* The first header line of f after line no, or Len(f) + 1 when there is none.
NextHeaderNo(f, no) ==
    IF \E k \in (no + 1)..Len(f) : ~f[k].blank /\ f[k].hdr
    THEN CHOOSE k \in (no + 1)..Len(f) :
             /\ ~f[k].blank /\ f[k].hdr
             /\ \A j \in (no + 1)..(k - 1) : f[j].blank \/ ~f[j].hdr
    ELSE Len(f) + 1

IsDumpLine(line) == ~line.blank /\ ~line.hdr /\ line.pipe

\* The pipe-delimited lines of f between header line no and the next header,
\* in file order.
DumpAfter(f, no) ==
    SelectSeq(SubSeq(f, no + 1, NextHeaderNo(f, no) - 1), IsDumpLine)

DumpsFollowHeader(m) ==
    \A s \in DOMAIN m : \A i \in 1..Len(m[s]) :
        m[s][i].MemoryHex = DumpAfter(logFile, m[s][i].Content.no)

\* C25: after a load, the memory-dump list of every stored entry is exactly
\* the pipe-delimited lines between its header and the next header of the
\* file, in file order; other lines are in no entry's list.
C25_DumpsFollowHeader ==
    /\ "BL" \in logLoaded => DumpsFollowHeader(BlLogs)
    /\ "RW" \in logLoaded => DumpsFollowHeader(RwLogs)

\* C26: a command that is a decimal line number d alone is parsed as a GoTo
\* with argument d, and with a file loaded it sets the cursor to d when d is
\* a line of the file.
C26_BareNumberGoTo ==
    [][ \A d \in NumberTexts :
          Input(d) =>
             /\ cmdRet'.cmd.Type = "CmdGoTo"
             /\ cmdRet'.cmd.Args = <<d>>
             /\ (DecimalValue(d) < totalLines) => CurrentIndex' = DecimalValue(d) ]_vars

\* C29: an input whose first token is no command name, no alias and no
\* number does not move the cursor and is not kept as the last command; `s`
\* leaves auto-step off.
C29_UnknownInputIgnored ==
    [][ \A text \in UnknownTexts :
          Input(text) =>
             /\ CurrentIndex' = CurrentIndex
             /\ LastCommand' = NoCommand \/ LastCommand'.Raw # text
             /\ (text = <<"s">>) => ~AutoStep' ]_vars

\* C27: for every total T >= 1, window size K >= 1 and center c in [0, T)
\* the window [start, end) a reload computes contains c; so a cursor that is
\* outside the window is not the center.
C27_WindowContainsCenter ==
    (/\ fnArg.fn = "LoadWindow" /\ fnRet.done
     /\ fnArg.total >= 1 /\ fnArg.windowSize >= 1
     /\ fnArg.center >= 0 /\ fnArg.center < fnArg.total) =>
        LET start == fnRet.val[1]
            end == fnRet.val[2]
        IN /\ start <= fnArg.center /\ fnArg.center < end
           /\ \A cursor \in 0..(fnArg.total - 1) :
                 (cursor < start \/ cursor >= end) => cursor # fnArg.center

\* A window was computed for the last line of a file longer than the window,
\* where the window is pulled back from the end of the file.
C27_Witness ==
    /\ fnArg.fn = "LoadWindow"
    /\ fnRet.done
    /\ fnArg.windowSize >= 2
    /\ fnArg.total > fnArg.windowSize
    /\ fnArg.center = fnArg.total - 1
    /\ fnRet.val = <<fnArg.total - fnArg.windowSize, fnArg.total>>

\* The caller's last call was a successful GoTo, Next or Prev.
Navigated == ret.ok /\ ret.op \in {"GoTo", "Next", "Prev"}

\* C28: only the caller's own calls write the cursor: once a GoTo, Next or
\* Prev has succeeded, no step of a reload, whether in flight at the call or
\* started by it, changes the cursor the call set.
C28_CursorSingleWriter ==
    [][ (Navigated /\ calls' = calls) => CurrentIndex' = CurrentIndex ]_vars

\* pc values of a LoadWindow execution that has set isLoading and has not
\* returned.
HoldingPcs == {"calc", "open", "scan", "range", "range2", "adjust", "release"}

\* C30: every LoadWindow execution that has set isLoading returns, and
\* returns by clearing it, whether it replaced the window, found the bounds
\* unchanged or failed to open the file; so with no reload running the flag
\* is clear and the entry test of a new request lets it through.
C30_BusyFlagReleased ==
    /\ \A p \in Procs : (procs[p].pc \in HoldingPcs) ~> (procs[p].pc = "idle")
    /\ [][ \A p \in Procs :
             /\ (procs[p].pc \in HoldingPcs /\ procs'[p].pc \notin HoldingPcs)
                   => (procs'[p].pc = "idle" /\ ~isLoading')
             /\ ( /\ LoadWindow_check(p)
                  /\ FileName # ""
                  /\ \A q \in Procs \ {p} : procs[q].pc = "idle" )
                   => procs'[p].pc = "busy" ]_vars
    /\ [](Quiescent => ~isLoading)

\* A reload whose open failed is at its return with the flag still set.
C30_Witness ==
    \E p \in Procs :
        /\ procs[p].pc = "release"
        /\ ~procs[p].skipped
        /\ <<procs[p].start, procs[p].end>> # LoadedRange
        /\ isLoading
        /\ \A q \in Procs \ {p} : procs[q].pc = "idle"
        /\ WindowIntact

\* The input handler is blocked in its send on the full channel while the
\* loop waits for the UI thread to run an update it queued.
MutualBlock ==
    /\ uiSend.blocked
    /\ Len(AutoStepChan) >= ChanCap
    /\ auto.pc \in {"draw", "drawEnd"}

\* The last command entered is a stop.
StopEntered == cmdRet.cmd # NoCommand /\ cmdRet.cmd.Type = "CmdStop"

\* C31: whatever run and stop commands are entered, the handler's send on
\* the auto-step channel always completes and the auto-step goroutine always
\* comes back to receiving: the two are never blocked on each other; and once
\* a stop is entered the loop moves the cursor no further.
C31_AutoStepNeverBlocks ==
    /\ [](~MutualBlock)
    /\ uiSend.blocked ~> ~uiSend.blocked
    /\ (auto.pc # "recv") ~> (auto.pc = "recv")
    /\ [][ (StopEntered /\ AutoExecute) => CurrentIndex' = CurrentIndex ]_vars

====
